---- MODULE Spec2Model ----
(***************************************************************************)
(* A model of app.py: the workbook-backed record store of the procurement  *)
(* tracker.  The live workbook file, its backup snapshots, the schema      *)
(* upgrade, the record handlers and the request threads that run them.     *)
(*                                                                         *)
(* Cell values are tagged pairs, because a cell of the workbook can hold   *)
(* a number, a text or nothing and Python compares them without error:     *)
(*   <<"none", 0>>   an empty cell (None)                                  *)
(*   <<"int", n>>    a number                                              *)
(*   <<"str", s>>    a text                                                *)
(* A sheet is a grid: a sequence of rows, row 1 being the header row; a    *)
(* row is a sequence of cells.  openpyxl does not store empty cells, so a  *)
(* grid is kept in canonical form: no row ends in an empty cell and the    *)
(* grid does not end in an empty row.                                      *)
(* A workbook is a function from the titles of its sheets to their grids.  *)
(***************************************************************************)
EXTENDS Integers, Sequences, FiniteSets, TLC

None == <<"none", 0>>

I(n) == <<"int", n>>

S(s) == <<"str", s>>

IsInt(v) == v[1] = "int"

IsStr(v) == v[1] = "str"

\* Python truthiness of a cell value: None, 0 and "" are falsy.
Falsy(v) == v = None \/ v = I(0) \/ v = S("")

\* v or d
OrElse(v, d) == IF Falsy(v) THEN d ELSE v

SetMax(s) == CHOOSE x \in s : \A y \in s : y <= x

-----------------------------------------------------------------------------
(* SHEETS, app.py 257-278 *)

Titles == {"Users", "Directory", "Requisitions", "Landings", "Categories", "Vessels"}

SHEETS ==
  [t \in Titles |->
     CASE t = "Users" -> <<"username", "password_hash", "role">>
       [] t = "Directory" -> <<"id", "type", "name", "email", "phone", "address">>
       [] t = "Requisitions" ->
            <<"id", "number", "vessel", "supplier", "date_ordered", "expected",
              "total_amount", "paid", "category", "delivered", "status",
              "currency", "original_amount">>
       [] t = "Landings" ->
            <<"id", "vessel", "item", "workshop", "amount", "paid", "expected",
              "landed_date", "status", "delivered", "currency", "amount_original">>
       [] t = "Categories" -> <<"id", "name", "abbr">>
       [] t = "Vessels" -> <<"id", "name">>]

\* The columns _upgrade_schema adds to an existing sheet (app.py 381, 390).
UpgradeCols(t) ==
  CASE t = "Requisitions" -> <<"category", "delivered", "status", "currency", "original_amount">>
    [] t = "Landings" -> <<"landed_date", "status", "delivered", "currency", "amount_original">>
    [] OTHER -> <<>>

HeaderRow(t) == SubSeq([i \in 1..Len(SHEETS[t]) |-> S(SHEETS[t][i])], 1, Len(SHEETS[t]))

-----------------------------------------------------------------------------
(* The grid of a worksheet, as openpyxl presents it. *)

RECURSIVE TrimRow(_)
TrimRow(r) ==
  IF r = <<>> THEN r
  ELSE IF r[Len(r)] = None THEN TrimRow(SubSeq(r, 1, Len(r) - 1)) ELSE r

RECURSIVE TrimGrid(_)
TrimGrid(g) ==
  IF g = <<>> THEN g
  ELSE IF g[Len(g)] = <<>> THEN TrimGrid(SubSeq(g, 1, Len(g) - 1)) ELSE g

\* What a save followed by a load keeps of a grid.
Canon(g) == TrimGrid(SubSeq([i \in 1..Len(g) |-> TrimRow(g[i])], 1, Len(g)))

\* ws.max_row and ws.max_column: at least 1.
MaxRow(g) == IF Len(g) = 0 THEN 1 ELSE Len(g)

MaxCol(g) ==
  LET w == {Len(g[i]) : i \in 1..Len(g)} \cup {1}
  IN  SetMax(w)

\* ws.cell(row=i, column=j).value
Cell(g, i, j) ==
  IF i <= Len(g) /\ j <= Len(g[i]) THEN g[i][j] ELSE None

\* [c.value for c in ws[1]]: the header row over all max_column columns.
Headers(g) == SubSeq([j \in 1..MaxCol(g) |-> Cell(g, 1, j)], 1, MaxCol(g))

\* The whole row i over all max_column columns.
RowVals(g, i) == [j \in 1..MaxCol(g) |-> Cell(g, i, j)]

\* ws.cell(row=i, column=j, value=v)
SetCell(g, i, j, v) ==
  LET rows == IF i <= Len(g) THEN g ELSE g \o [k \in 1..(i - Len(g)) |-> <<>>]
      r == rows[i]
      wide == IF j <= Len(r) THEN r ELSE r \o [k \in 1..(j - Len(r)) |-> None]
  IN  [rows EXCEPT ![i] = [wide EXCEPT ![j] = v]]

\* A slip of ws.append: the row put right under the header row.
AppendUnderHeader(g, vals) ==
  IF Len(g) = 0 THEN <<vals>> ELSE <<g[1], vals>> \o SubSeq(g, 2, Len(g))

\* ws.append(vals): the values go to columns 1..n of the row after the last.
Append2(g, vals) == g \o <<vals>>

\* ws.delete_rows(i)
DeleteRow(g, i) ==
  IF i > Len(g) THEN g
  ELSE SubSeq(g, 1, i - 1) \o SubSeq(g, i + 1, Len(g))

\* headers.index(key) + 1, or 0 when key is not a header (ValueError).
HIndex(hs, key) ==
  LET at == {j \in 1..Len(hs) : hs[j] = S(key)}
  IN  IF at = {} THEN 0 ELSE CHOOSE j \in at : \A k \in at : j <= k

\* dict(zip(headers, vals)).get(key): the last column bearing the name wins.
RowGet(g, i, key) ==
  LET hs == Headers(g)
      at == {j \in 1..Len(hs) : hs[j] = S(key)}
  IN  IF at = {} THEN None ELSE Cell(g, i, SetMax(at))

Range(f) == {f[x] : x \in DOMAIN f}

\* Whether row i of the grid holds nothing (the rows _sheet_rows skips).
EmptyRow(g, i) == \A j \in 1..MaxCol(g) : Cell(g, i, j) = None

\* _sheet_rows(ws): the indices of the data rows it returns, in file order.
SheetRows(g) == SelectSeq([k \in 1..(MaxRow(g) - 1) |-> k + 1], LAMBDA i : ~EmptyRow(g, i))

-----------------------------------------------------------------------------
(* The file at XLSX_PATH and the files beside it.  Only the content of a   *)
(* file is modelled, not its bytes:                                        *)
(*   kind "none"     no file at the path                                   *)
(*   kind "wb"       a workbook load_workbook reads, with its sheets       *)
(*   kind "corrupt"  bytes load_workbook cannot read                       *)
(*   kind "partial"  a file that a writer has truncated and not finished   *)

NoFile == [kind |-> "none", wb |-> <<>>]

Corrupt == [kind |-> "corrupt", wb |-> <<>>]

Partial == [kind |-> "partial", wb |-> <<>>]

\* A file that two writers are rewriting at once (only while they write).
Torn == [kind |-> "torn", wb |-> <<>>]

WbFile(w) == [kind |-> "wb", wb |-> w]

Readable(f) == f.kind = "wb"

\* generate_password_hash(p): the stored hash of a password.
PasswordHash(p) == S("hash-of-" \o p)

-----------------------------------------------------------------------------
(* _upgrade_schema, app.py 357-397 *)

\* app.py 373: the sheet is empty.
SheetIsEmpty(g) == MaxRow(g) = 1 /\ \A j \in 1..MaxCol(g) : Cell(g, 1, j) = None

\* app.py 374-375: write the headers into row 1.
RECURSIVE WriteHeaders(_, _, _)
WriteHeaders(g, hs, i) ==
  IF i > Len(hs) THEN g ELSE WriteHeaders(SetCell(g, 1, i, S(hs[i])), hs, i + 1)

\* A slip of app.py 373: the headers appended whether or not the sheet is empty.
EnsureSheetAppendsHeaders(w, t) ==
  IF t \notin DOMAIN w THEN <<HeaderRow(t)>> ELSE Append2(w[t], HeaderRow(t))

\* app.py 365-376: every sheet exists and has at least its headers.
EnsureSheet(w, t) ==
  IF t \notin DOMAIN w THEN <<HeaderRow(t)>>
  ELSE IF SheetIsEmpty(w[t]) THEN WriteHeaders(w[t], SHEETS[t], 1)
  ELSE w[t]

\* A slip of app.py 383: the column after the last named header cell, which
\* data rows wider than the header row already use.
AddColumnAfterLastName(g, hs, name) == SetCell(g, 1, Len(TrimRow(g[1])) + 1, S(name))

\* app.py 383 and 392: the new column goes after the last of the header row's
\* max_column cells, len(headers) + 1.
AddColumn(g, hs, name) == SetCell(g, 1, Len(hs) + 1, S(name))

\* A slip of app.py 381 and 390: the columns added whether or not the header
\* row has them.
RECURSIVE AddMissingAlways(_, _, _, _)
AddMissingAlways(g, hs, cols, i) ==
  IF i > Len(cols) THEN g
  ELSE AddMissingAlways(AddColumn(g, hs, cols[i]), Append(hs, S(cols[i])), cols, i + 1)

\* app.py 380-385 and 389-394: add the columns of cols missing from the header.
RECURSIVE AddMissing(_, _, _, _)
AddMissing(g, hs, cols, i) ==
  IF i > Len(cols) THEN g
  ELSE IF S(cols[i]) \in Range(hs) THEN AddMissing(g, hs, cols, i + 1)
  ELSE AddMissing(AddColumn(g, hs, cols[i]), Append(hs, S(cols[i])), cols, i + 1)

\* The workbook _upgrade_schema leaves in memory.
UpgradeSchema(w) ==
  LET w1 == [t \in (DOMAIN w) \cup Titles |-> IF t \in Titles THEN EnsureSheet(w, t) ELSE w[t]] @@ <<>>
  IN  [t \in DOMAIN w1 |->
         IF t \in {"Requisitions", "Landings"}
         THEN AddMissing(w1[t], Headers(w1[t]), UpgradeCols(t), 1)
         ELSE w1[t]] @@ <<>>

\* What wb.save writes of the workbook in memory.
Saved(w) == WbFile([t \in DOMAIN w |-> Canon(w[t])] @@ <<>>)

\* app.py 406-419: the workbook created from scratch, with the seeded admin.
NewWorkbook ==
  [t \in Titles |->
     IF t = "Users"
     THEN <<HeaderRow(t), <<S("admin"), PasswordHash("admin123"), S("admin")>>>>
     ELSE <<HeaderRow(t)>>]

\* A variant of _ensure_workbook that starts a workbook from scratch whenever
\* the file at the path cannot be loaded.
EnsureWorkbookRecreates(f) ==
  LET w == IF f.kind = "wb" THEN f.wb ELSE NewWorkbook
      u == UpgradeSchema(w)
  IN  [file |-> Saved(u), writes |-> IF u # w THEN 2 ELSE 1, raised |-> FALSE]

\* _ensure_workbook, app.py 399-420, run alone: the file it leaves, the number
\* of times it writes the file (once inside _upgrade_schema when it changed
\* something, app.py 396-397, and once more at 403 or 420) and whether it raises.
EnsureWorkbook(f) ==
  IF f.kind = "wb" \/ f.kind = "none"
  THEN LET w == IF f.kind = "none" THEN NewWorkbook ELSE f.wb
           u == UpgradeSchema(w)
       IN  [file |-> Saved(u), writes |-> IF u # w THEN 2 ELSE 1, raised |-> FALSE]
  ELSE [file |-> f, writes |-> 0, raised |-> TRUE]

-----------------------------------------------------------------------------
(* Python's text and number operations on cell values, over the texts the  *)
(* requests and files of the model use.                                    *)

\* s.strip()
StripS(s) ==
  CASE s = " PO-1 " -> "PO-1"
    [] s = " Alpha " -> "Alpha"
    [] s = " " -> ""
    [] OTHER -> s

\* s.lower()
LowerS(s) ==
  CASE s = "PO-1" -> "po-1"
    [] s = "PO-2" -> "po-2"
    [] s = "Alpha" -> "alpha"
    [] s = "Beta" -> "beta"
    [] s = "GEN" -> "gen"
    [] s = "ENG" -> "eng"
    [] s = "EUR" -> "eur"
    [] s = "USD" -> "usd"
    [] s = "Cancelled" -> "cancelled"
    [] OTHER -> s

\* s.upper()
UpperS(s) ==
  CASE s = "eur" -> "EUR"
    [] s = "usd" -> "USD"
    [] s = "xxx" -> "XXX"
    [] OTHER -> s

\* s.isdigit()
IsDigitS(s) == s \in {"0", "1", "2", "3", "4", "5"}

\* int(s) of a text of digits
DigitVal(s) ==
  CASE s = "0" -> 0 [] s = "1" -> 1 [] s = "2" -> 2 [] s = "3" -> 3 [] s = "4" -> 4 [] s = "5" -> 5

\* (v or "").strip() raises AttributeError when v is a number other than 0.
CanStrip(v) == Falsy(v) \/ IsStr(v)

\* (v or "").strip()
StripV(v) == IF Falsy(v) THEN "" ELSE StripS(v[2])

\* (v or "").strip().lower()
NormV(v) == LowerS(StripV(v))

\* int(v) and float(v) raise on None and on a text that is no number.
CanInt(v) == IsInt(v) \/ (IsStr(v) /\ IsDigitS(v[2]))

\* int(v), float(v)
IntOf(v) == IF IsInt(v) THEN v[2] ELSE DigitVal(v[2])

\* 1 if v else 0
Flag(v) == IF Falsy(v) THEN I(0) ELSE I(1)

-----------------------------------------------------------------------------
(* Record store helpers, app.py 426-449 *)

\* app.py 437: the rows whose id counts, str(r.get("id") or "").isdigit().
IdCounts(v) == ~Falsy(v) /\ (IF IsInt(v) THEN v[2] >= 0 ELSE IsDigitS(v[2]))

\* A slip of app.py 438: the largest id, not the one after it.
NextIdNoIncrement(g) ==
  LET ids == {IntOf(RowGet(g, i, "id")) : i \in {k \in Range(SheetRows(g)) : IdCounts(RowGet(g, k, "id"))}}
  IN  IF ids = {} THEN 1 ELSE SetMax(ids)

\* _next_id(_sheet_rows(ws))
NextId(g) ==
  LET ids == {IntOf(RowGet(g, i, "id")) : i \in {k \in Range(SheetRows(g)) : IdCounts(RowGet(g, k, "id"))}}
  IN  IF ids = {} THEN 1 ELSE SetMax(ids) + 1

\* _find_row_index_by(ws, key, value): the first row from row 2 whose cell under
\* the first column named key equals value; 0 stands for None.
FindRowIndexBy(g, key, value) ==
  LET col == HIndex(Headers(g), key)
      at == {i \in 2..MaxRow(g) : col # 0 /\ Cell(g, i, col) = value}
  IN  IF at = {} THEN 0 ELSE CHOOSE i \in at : \A k \in at : i <= k

-----------------------------------------------------------------------------
(* FX helpers, app.py 280-355.  Amounts are in hundredths of a unit and a  *)
(* live rate in hundredths (90 is 0.90); a quotient is cut to a whole      *)
(* number of hundredths.                                                   *)

FxTtl == 3600

\* app.py 13-16 and 292: whether the requests library was imported; the
\* cache record carries it beside FX_CACHE's timestamp and rates.
RequestsInstalled(cache) == cache.requests

\* FX_CACHE as the module defines it (app.py 280), in a process that has the
\* requests library or has not.
EmptyFxCache(lib) == [timestamp |-> 0, rates |-> <<>>, requests |-> lib]

UsdOnly == [c \in {"USD"} |-> 100]

\* A slip of app.py 289: a cache as old as the TTL still counts as fresh.
FxFreshInclusive(cache, t) == cache.rates # <<>> /\ t - cache.timestamp <= FxTtl

\* app.py 289: the cache holds rates younger than the TTL.
FxFresh(cache, t) == cache.rates # <<>> /\ t - cache.timestamp < FxTtl

\* Whether _get_fx_rates() at time t calls requests.get (app.py 297).
FetchAttempted(cache, t) == ~FxFresh(cache, t) /\ RequestsInstalled(cache)

\* A slip of app.py 307-312: after a failed fetch the USD-only table, always.
GetFxRatesResetOnFailure(cache, t, fetched) ==
  IF FxFresh(cache, t) THEN cache
  ELSE IF ~RequestsInstalled(cache) \/ fetched = <<>>
       THEN [cache EXCEPT !.timestamp = t, !.rates = UsdOnly]
  ELSE [cache EXCEPT !.timestamp = t,
                     !.rates = [c \in (DOMAIN fetched) \cup {"USD"} |->
                                  IF c = "USD" THEN 100 ELSE fetched[c]]]

\* _get_fx_rates() at time t, the fetch answering with the rates fetched (the
\* empty map for a failure or an empty payload): the cache it leaves, whose
\* rates are the ones it returns.
GetFxRates(cache, t, fetched) ==
  IF FxFresh(cache, t) THEN cache
  ELSE IF ~RequestsInstalled(cache) THEN [cache EXCEPT !.timestamp = t, !.rates = UsdOnly]
  ELSE IF fetched # <<>>
       THEN [cache EXCEPT !.timestamp = t,
                          !.rates = [c \in (DOMAIN fetched) \cup {"USD"} |->
                                       IF c = "USD" THEN 100 ELSE fetched[c]]]
  ELSE IF cache.rates = <<>> THEN [cache EXCEPT !.timestamp = t, !.rates = UsdOnly]
  ELSE cache

\* STATIC_CURRENCY_TO_USD, app.py 314-326, in millionths of a dollar.
StaticCurrencyToUsd ==
  [c \in {"USD", "EUR", "AED", "GBP", "LBP", "SAR", "QAR", "KWD", "OMR", "CHF"} |->
     CASE c = "USD" -> 1000000 [] c = "EUR" -> 1080000 [] c = "AED" -> 270000
       [] c = "GBP" -> 1250000 [] c = "LBP" -> 11 [] c = "SAR" -> 270000
       [] c = "QAR" -> 270000 [] c = "KWD" -> 3250000 [] c = "OMR" -> 2600000
       [] c = "CHF" -> 1100000]

\* amount * m / 1000000 for a rate m in millionths, computed in two parts to stay
\* within 32-bit integers.
TimesMillionths(amount, m) ==
  (amount * (m \div 1000)) \div 1000 + (amount * (m % 1000)) \div 1000000

\* A slip of app.py 345: the amount times the live rate, not divided by it.
ConvertToUsdMultiplies(amount, currency, rates) ==
  IF currency = "USD" THEN amount
  ELSE IF currency \in DOMAIN rates /\ rates[currency] # 0
       THEN (amount * rates[currency]) \div 100
  ELSE IF currency \in DOMAIN StaticCurrencyToUsd
       THEN TimesMillionths(amount, StaticCurrencyToUsd[currency])
  ELSE amount

\* convert_to_usd(amount, currency) given the rates _get_fx_rates returned.
ConvertToUsd(amount, currency, rates) ==
  IF currency = "USD" THEN amount
  ELSE IF currency \in DOMAIN rates /\ rates[currency] # 0
       THEN (amount * 100) \div rates[currency]
  ELSE IF currency \in DOMAIN StaticCurrencyToUsd
       THEN TimesMillionths(amount, StaticCurrencyToUsd[currency])
  ELSE amount

\* The cache convert_to_usd leaves: it asks for rates only off the USD path.
FxAfterConvert(cache, currency, t, fetched) ==
  IF currency = "USD" THEN cache ELSE GetFxRates(cache, t, fetched)

-----------------------------------------------------------------------------
(* The handlers' work inside "with WB_LOCK", on the workbook _open_wb       *)
(* returned: the workbook in memory at the end, whether _save_wb was       *)
(* called, and the response.  "exception" is an uncaught Python exception  *)
(* (a 500 response); nothing is saved then.                                *)

Done(w) == [wb |-> w, save |-> TRUE, resp |-> "ok"]

Refuse(w, r) == [wb |-> w, save |-> FALSE, resp |-> r]

\* The scan of the rows for a value equal, trimmed and lower-cased, to target
\* under column key: "yes", "no", or "raise" when a row stops it.
\*   skip = 0: every row is compared (the add handlers)
\*   skip = 1: rows with int(r.get("id") or 0) == id are passed over
\*   skip = 2: rows with int(r["id"]) == id are passed over
RECURSIVE Scan(_, _, _, _, _, _, _)
Scan(g, rows, k, key, target, skip, id) ==
  IF k > Len(rows) THEN "no"
  ELSE LET i == rows[k]
           idv == RowGet(g, i, "id")
           v == RowGet(g, i, key)
       IN  IF skip = 1 /\ ~Falsy(idv) /\ ~CanInt(idv) THEN "raise"
           ELSE IF skip = 2 /\ ~CanInt(idv) THEN "raise"
           ELSE IF skip # 0 /\ IntOf(OrElse(idv, I(0))) = id
                THEN Scan(g, rows, k + 1, key, target, skip, id)
           ELSE IF ~CanStrip(v) THEN "raise"
           ELSE IF NormV(v) = target THEN "yes"
           ELSE Scan(g, rows, k + 1, key, target, skip, id)

\* A grid under change with the exception raised so far, if any.
St(g) == [g |-> g, err |-> FALSE]

\* A slip of headers.index(key)+1: the column after the one the key names.
SetByNameOffByOne(st, hs, idx, key, v) ==
  IF st.err THEN st
  ELSE IF HIndex(hs, key) = 0 THEN [st EXCEPT !.err = TRUE]
  ELSE [st EXCEPT !.g = SetCell(st.g, idx, HIndex(hs, key) + 1, v)]

\* ws.cell(row=idx, column=headers.index(key)+1, value=v): ValueError when the
\* header row has no such column.
SetByName(st, hs, idx, key, v) ==
  IF st.err THEN st
  ELSE IF HIndex(hs, key) = 0 THEN [st EXCEPT !.err = TRUE]
  ELSE [st EXCEPT !.g = SetCell(st.g, idx, HIndex(hs, key), v)]

\* for key in keys: if key in patch and key in headers: write patch[key] or "".
RECURSIVE PatchKeys(_, _, _, _, _, _)
PatchKeys(st, hs, idx, patch, keys, k) ==
  IF k > Len(keys) THEN st
  ELSE IF keys[k] \in DOMAIN patch /\ HIndex(hs, keys[k]) # 0
       THEN PatchKeys(SetByName(st, hs, idx, keys[k], OrElse(patch[keys[k]], S(""))),
                      hs, idx, patch, keys, k + 1)
  ELSE PatchKeys(st, hs, idx, patch, keys, k + 1)

\* The end of an update handler: _save_wb unless something raised.
Close(w, t, st) ==
  IF st.err THEN Refuse(w, "exception") ELSE Done([w EXCEPT ![t] = st.g])

\* dir_add, app.py 580-584 (and dir_quick_add 599-603).
DirAdd(w, d) ==
  LET g == w["Directory"]
  IN  Done([w EXCEPT !["Directory"] =
        Append2(g, <<I(NextId(g)), d.type, S(StripV(d.name)), S(StripV(d.email)),
                     S(StripV(d.phone)), S(StripV(d.address))>>)])

\* dir_update, app.py 611-620.
DirUpdate(w, did, patch) ==
  LET g == w["Directory"]
      idx == FindRowIndexBy(g, "id", I(did))
  IN  IF idx = 0 THEN Refuse(w, "not_found")
      ELSE Close(w, "Directory",
                 PatchKeys(St(g), Headers(g), idx, patch, <<"email", "phone", "address", "name">>, 1))

\* dir_delete, vessel_delete, cat_delete, req_delete, land_delete
\* (app.py 627-631, 700-705, 774-778, 943-947, 1072-1076).
DeleteById(w, t, id) ==
  LET idx == FindRowIndexBy(w[t], "id", I(id))
  IN  IF idx = 0 THEN Refuse(w, "ok")
      ELSE Done([w EXCEPT ![t] = DeleteRow(w[t], idx)])

\* vessel_add, app.py 656-664.
VesselAdd(w, name) ==
  LET g == w["Vessels"]
      dup == Scan(g, SheetRows(g), 1, "name", LowerS(name), 0, 0)
  IN  IF dup = "raise" THEN Refuse(w, "exception")
      ELSE IF dup = "yes" THEN Refuse(w, "duplicate_name")
      ELSE Done([w EXCEPT !["Vessels"] = Append2(g, <<I(NextId(g)), S(name)>>)])

\* vessel_update, app.py 677-692.
VesselUpdate(w, vid, name) ==
  LET g == w["Vessels"]
      idx == FindRowIndexBy(g, "id", I(vid))
      dup == Scan(g, SheetRows(g), 1, "name", LowerS(name), 1, vid)
  IN  IF idx = 0 THEN Refuse(w, "not_found")
      ELSE IF dup = "raise" THEN Refuse(w, "exception")
      ELSE IF dup = "yes" THEN Refuse(w, "duplicate_name")
      ELSE Close(w, "Vessels", SetByName(St(g), Headers(g), idx, "name", S(name)))

\* cat_add, app.py 731-739.
CatAdd(w, name, abbr) ==
  LET g == w["Categories"]
      dup == Scan(g, SheetRows(g), 1, "abbr", LowerS(abbr), 0, 0)
  IN  IF dup = "raise" THEN Refuse(w, "exception")
      ELSE IF dup = "yes" THEN Refuse(w, "duplicate_abbr")
      ELSE Done([w EXCEPT !["Categories"] = Append2(g, <<I(NextId(g)), S(name), S(abbr)>>)])

\* cat_update, app.py 747-767.
CatUpdate(w, cid, d) ==
  LET g == w["Categories"]
      hs == Headers(g)
      idx == FindRowIndexBy(g, "id", I(cid))
      hasAbbr == "abbr" \in DOMAIN d /\ d["abbr"] # None
      newAbbr == IF hasAbbr THEN StripS(d["abbr"][2]) ELSE ""
      dup == IF hasAbbr THEN Scan(g, SheetRows(g), 1, "abbr", LowerS(newAbbr), 1, cid) ELSE "no"
      s1 == IF hasAbbr THEN SetByName(St(g), hs, idx, "abbr", S(newAbbr)) ELSE St(g)
      s2 == IF "name" \in DOMAIN d THEN SetByName(s1, hs, idx, "name", OrElse(d["name"], S(""))) ELSE s1
  IN  IF idx = 0 THEN Refuse(w, "not_found")
      ELSE IF dup = "raise" THEN Refuse(w, "exception")
      ELSE IF dup = "yes" THEN Refuse(w, "duplicate_abbr")
      ELSE Close(w, "Categories", s2)

\* req_toggle_paid and land_toggle_paid, app.py 854-862 and 1008-1016.
TogglePaid(w, t, id) ==
  LET g == w[t]
      hs == Headers(g)
      idx == FindRowIndexBy(g, "id", I(id))
      cur == OrElse(Cell(g, idx, HIndex(hs, "paid")), I(0))
  IN  IF idx = 0 THEN Refuse(w, "not_found")
      ELSE IF HIndex(hs, "paid") = 0 \/ ~CanInt(cur) THEN Refuse(w, "exception")
      ELSE Close(w, t, SetByName(St(g), hs, idx, "paid", IF IntOf(cur) # 0 THEN I(0) ELSE I(1)))

\* d.get(k)
Get(d, k) == IF k \in DOMAIN d THEN d[k] ELSE None

\* d.get(k, default)
GetOr(d, k, default) == IF k \in DOMAIN d THEN d[k] ELSE default

\* next((r for r in rows if int(r["id"]) == id), None): the row, 0 for None,
\* -1 when int() raises on a row met before it.
RECURSIVE FirstById(_, _, _, _)
FirstById(g, rows, k, id) ==
  IF k > Len(rows) THEN 0
  ELSE IF ~CanInt(RowGet(g, rows[k], "id")) THEN -1
  ELSE IF IntOf(RowGet(g, rows[k], "id")) = id THEN rows[k]
  ELSE FirstById(g, rows, k + 1, id)

\* The currency a request names: (d.get("currency") or "USD").upper().
CurrencyOf(d) == UpperS(OrElse(Get(d, "currency"), S("USD"))[2])

\* req_add's amount_raw, app.py 805.
ReqAmountRaw(d) == GetOr(d, "amount", Get(d, "total_amount"))

\* A slip of app.py 817-818: the numbers compared as they are written, only
\* trimmed.
ReqAddCheckCaseSensitive(w, d) ==
  LET g == w["Requisitions"]
      c == w["Categories"]
      dup == \E i \in Range(SheetRows(g)) : StripV(RowGet(g, i, "number")) = StripV(d["number"])
      cat == Scan(c, SheetRows(c), 1, "abbr", LowerS(StripV(Get(d, "category"))), 0, 0)
  IN  IF dup THEN "duplicate_number"
      ELSE IF cat = "raise" THEN "exception"
      ELSE IF cat = "no" THEN "unknown_category"
      ELSE IF ~CanInt(ReqAmountRaw(d)) THEN "exception"
      ELSE ""

\* req_add, app.py 813-826: the checks before the conversion; "" when they pass.
ReqAddCheck(w, d) ==
  LET g == w["Requisitions"]
      c == w["Categories"]
      dup == Scan(g, SheetRows(g), 1, "number", NormV(d["number"]), 0, 0)
      cat == Scan(c, SheetRows(c), 1, "abbr", LowerS(StripV(Get(d, "category"))), 0, 0)
  IN  IF dup = "raise" THEN "exception"
      ELSE IF dup = "yes" THEN "duplicate_number"
      ELSE IF cat = "raise" THEN "exception"
      ELSE IF cat = "no" THEN "unknown_category"
      ELSE IF ~CanInt(ReqAmountRaw(d)) THEN "exception"
      ELSE ""

\* req_add, app.py 813-847, with the rates _get_fx_rates answers.
ReqAdd(w, d, rates) ==
  LET g == w["Requisitions"]
      amount == IntOf(ReqAmountRaw(d))
      row == <<I(NextId(g)), S(StripV(d["number"])), S(StripV(d["vessel"])), d["supplier"],
               d["date_ordered"], OrElse(Get(d, "expected"), S("")),
               I(ConvertToUsd(amount, CurrencyOf(d), rates)), Flag(Get(d, "paid")),
               S(StripV(Get(d, "category"))), I(0), S("open"), S(CurrencyOf(d)), I(amount)>>
  IN  IF ReqAddCheck(w, d) # "" THEN Refuse(w, ReqAddCheck(w, d))
      ELSE Done([w EXCEPT !["Requisitions"] = Append2(g, row)])

\* land_add, app.py 984-1001; the amount is converted before the lock is taken.
LandAdd(w, d, rates) ==
  LET g == w["Landings"]
      amount == IntOf(d["amount"])
      row == <<I(NextId(g)), S(StripV(d["vessel"])), S(StripV(d["item"])), d["workshop"],
               I(ConvertToUsd(amount, CurrencyOf(d), rates)), Flag(Get(d, "paid")),
               OrElse(Get(d, "expected"), S("")), OrElse(Get(d, "landed_date"), S("")),
               S("open"), I(0), S(CurrencyOf(d)), I(amount)>>
  IN  Done([w EXCEPT !["Landings"] = Append2(g, row)])

\* The column holding the USD amount and the one holding the original amount.
AmountCol(t) == IF t = "Requisitions" THEN "total_amount" ELSE "amount"

OriginalCol(t) == IF t = "Requisitions" THEN "original_amount" ELSE "amount_original"

\* Whether the patch asks for the amount block (app.py 901, 1033).
TouchesAmount(t, patch) ==
  IF t = "Requisitions"
  THEN {"amount", "total_amount", "currency"} \cap DOMAIN patch # {}
  ELSE {"amount", "currency"} \cap DOMAIN patch # {}

\* req_update 870-898 and land_update 1024-1030: what stops the handler before
\* the amount block; "" when it goes on.
UpdateCheck(w, t, id, patch) ==
  LET g == w[t]
      c == w["Categories"]
      hs == Headers(g)
      dup == Scan(g, SheetRows(g), 1, "number", LowerS(StripV(Get(patch, "number"))), 2, id)
      cat == Scan(c, SheetRows(c), 1, "abbr", LowerS(StripV(Get(patch, "category"))), 0, 0)
      number ==
        IF t # "Requisitions" \/ "number" \notin DOMAIN patch THEN ""
        ELSE IF StripV(patch["number"]) = "" THEN "number_required"
        ELSE IF dup = "raise" THEN "exception"
        ELSE IF dup = "yes" THEN "duplicate_number"
        ELSE IF HIndex(hs, "number") = 0 THEN "exception"
        ELSE ""
      category ==
        IF t # "Requisitions" \/ "category" \notin DOMAIN patch THEN ""
        ELSE IF cat = "raise" THEN "exception"
        ELSE IF cat = "no" THEN "unknown_category"
        ELSE IF HIndex(hs, "category") = 0 THEN "exception"
        ELSE ""
  IN  IF FindRowIndexBy(g, "id", I(id)) = 0 THEN "not_found"
      ELSE IF FirstById(g, SheetRows(g), 1, id) = -1 THEN "exception"
      ELSE IF number # "" THEN number
      ELSE category

\* The row the amount block reads the current currency and amount from
\* (cur, app.py 876 and 1030): 0 for None.
CurRow(w, t, id) == FirstById(w[t], SheetRows(w[t]), 1, id)

\* app.py 902, 1034: cur.get("currency") or "USD", before .upper(), of row r.
CurCurrency(g, r) ==
  IF r = 0 THEN S("USD") ELSE OrElse(RowGet(g, r, "currency"), S("USD"))

\* app.py 903, 1035: the original amount, else the amount, else 0, before float().
CurOrig(g, t, r) ==
  IF r = 0 THEN I(0)
  ELSE OrElse(RowGet(g, r, OriginalCol(t)), OrElse(RowGet(g, r, AmountCol(t)), I(0)))

\* app.py 904, 1036: amount_raw, given cur_orig.
PatchAmountRaw(t, patch, orig) ==
  IF t = "Requisitions"
  THEN GetOr(patch, "amount", GetOr(patch, "total_amount", orig))
  ELSE GetOr(patch, "amount", orig)

\* app.py 905, 1037: currency, given cur_currency.
PatchCurrency(patch, cur) == UpperS(OrElse(Get(patch, "currency"), S(UpperS(cur)))[2])

\* What the handler has when it reaches the amount block:
\*   check     what stopped it before (UpdateCheck)
\*   converts  whether it reaches convert_to_usd (app.py 908, 1040)
\*   amount    float(amount_raw), and currency, when it does
UpdatePlan(w, t, id, patch) ==
  LET g == w[t]
      chk == UpdateCheck(w, t, id, patch)
      r == CurRow(w, t, id)
      cur == CurCurrency(g, r)
      orig == CurOrig(g, t, r)
      raw == PatchAmountRaw(t, patch, orig)
      ok == chk = "" /\ TouchesAmount(t, patch) /\ IsStr(cur) /\ CanInt(orig) /\ CanInt(raw)
  IN  [check |-> chk, converts |-> ok,
       amount |-> IF ok THEN IntOf(raw) ELSE 0,
       currency |-> IF ok THEN PatchCurrency(patch, cur[2]) ELSE "USD"]

\* The status a patch asks for, (patch["status"] or "").strip().lower().
PatchStatus(patch) == NormV(patch["status"])

\* if cond: ws.cell(row=idx, column=headers.index(key)+1, value=v)
SetIf(cond, st, hs, idx, key, v) == IF cond THEN SetByName(st, hs, idx, key, v) ELSE st

\* app.py 908-914 and 1040-1046: the three cells the amount block writes.
AmountBlock(cond, st, hs, idx, t, amount, currency, rates) ==
  IF ~cond THEN st
  ELSE LET a == SetByName(st, hs, idx, AmountCol(t), I(ConvertToUsd(amount, currency, rates)))
           b == SetIf(HIndex(hs, "currency") # 0, a, hs, idx, "currency", S(currency))
       IN  SetIf(HIndex(hs, OriginalCol(t)) # 0, b, hs, idx, OriginalCol(t), I(amount))

\* The keys an update copies as they are (app.py 932, 1060).
OtherKeys(t) ==
  IF t = "Requisitions" THEN <<"vessel", "supplier", "date_ordered", "expected">>
  ELSE <<"vessel", "item", "workshop", "expected", "landed_date">>

\* A slip of app.py 927-929: the cells set so far are saved before bad_status
\* is answered.
FinishSavesBadStatus(w, t, st, badStatus) ==
  IF st.err THEN Refuse(w, "exception")
  ELSE IF badStatus THEN [wb |-> [w EXCEPT ![t] = st.g], save |-> TRUE, resp |-> "bad_status"]
  ELSE Done([w EXCEPT ![t] = st.g])

\* The end of req_update and land_update: the response, and the save.
Finish(w, t, st, badStatus) ==
  IF st.err THEN Refuse(w, "exception")
  ELSE IF badStatus THEN Refuse(w, "bad_status")
  ELSE Done([w EXCEPT ![t] = st.g])

\* req_update, app.py 870-936, and land_update, app.py 1024-1065, given what
\* UpdatePlan found (u) and the rates _get_fx_rates answers.
RecUpdate(w, t, id, patch, u, rates) ==
  LET g == w[t]
      hs == Headers(g)
      idx == FindRowIndexBy(g, "id", I(id))
      isReq == t = "Requisitions"
      s1 == SetIf(isReq /\ "number" \in DOMAIN patch, St(g), hs, idx, "number",
                  S(StripV(patch["number"])))
      s2 == SetIf(isReq /\ "category" \in DOMAIN patch, s1, hs, idx, "category",
                  S(StripV(patch["category"])))
      s3 == AmountBlock(TouchesAmount(t, patch), s2, hs, idx, t, u.amount, u.currency, rates)
      s4 == SetIf("paid" \in DOMAIN patch, s3, hs, idx, "paid", Flag(patch["paid"]))
      s5 == SetIf("delivered" \in DOMAIN patch, s4, hs, idx, "delivered", Flag(patch["delivered"]))
      badStatus == "status" \in DOMAIN patch /\ PatchStatus(patch) \notin {"open", "cancelled"}
      s6 == SetIf("status" \in DOMAIN patch /\ ~badStatus, s5, hs, idx, "status",
                  S(PatchStatus(patch)))
  IN  IF u.check # "" THEN Refuse(w, u.check)
      ELSE IF TouchesAmount(t, patch) /\ ~u.converts THEN Refuse(w, "exception")
      ELSE Finish(w, t, PatchKeys(s6, hs, idx, patch, OtherKeys(t), 1), badStatus)

-----------------------------------------------------------------------------
(* State *)

VARIABLES
  file,      \* the content of the live workbook file, XLSX_PATH
  snaps,     \* the backup files beside it: timestamp of the name -> content
  now,       \* int(time.time()), in seconds
  initDone,  \* hasattr(app, "_init_done")
  fx,        \* FX_CACHE, and whether the requests library was imported
  last,      \* the last request served: what it was given, found and left
  lock,      \* WB_LOCK: 0 when free, else the thread holding it
  pc,        \* per request thread: the place in its handler
  req,       \* per request thread: the request it serves
  mem,       \* per request thread: the workbook it holds in memory
  inflight   \* the threads that have begun a write of the live file and not ended it

vars == <<file, snaps, now, initDone, fx, last, lock, pc, req, mem, inflight>>

threadVars == <<lock, pc, req, mem, inflight>>

Threads == {1, 2}

NoRequest == [op |-> "none", name |-> "", f |-> NoFile, ts |-> 0]

\* What a thread holds of the live file: the content it last read from it
\* (seen) and the content it is writing or about to write to it (out).
NoMem == [seen |-> NoFile, out |-> NoFile]

NoArg == [t |-> "", id |-> 0, patch |-> <<>>]

NoLast ==
  [op |-> "none", arg |-> NoArg, before |-> NoFile, after |-> NoFile, writes |-> 0,
   resp |-> "none", n |-> 0]

ThreadsIdle ==
  /\ lock = 0
  /\ pc = [p \in Threads |-> <<>>]
  /\ req = [p \in Threads |-> NoRequest]
  /\ mem = [p \in Threads |-> NoMem]
  /\ inflight = {}

-----------------------------------------------------------------------------
(* Workbooks a deployment can find at XLSX_PATH when it starts: files of   *)
(* an earlier version of the sheet definitions, or edited by hand.         *)

MaxLegacyRows == 2

\* The cell of data row i (grid row i + 1), column j, of a legacy sheet.
LegacyCell(i, j) == IF j = 1 THEN I(i) ELSE I(10 * i + j)

\* A sheet of title t whose header holds the first k columns of the definition
\* (followed by a column of the user's own when own = 1), with n data rows that
\* are as wide as the header (one cell wider when wider = 1).
LegacyGrid(t, k, own, n, wider) ==
  LET hdr == SubSeq(HeaderRow(t), 1, k) \o (IF own = 1 THEN <<S("notes")>> ELSE <<>>)
      width == Len(hdr) + wider
  IN  Canon(<<hdr>> \o [i \in 1..n |-> [j \in 1..width |-> LegacyCell(i, j)]])

LegacyGrids(t) ==
  {LegacyGrid(t, k, own, n, wider) :
     k \in 0..Len(SHEETS[t]), own \in {0, 1}, n \in 0..MaxLegacyRows, wider \in {0, 1}}

\* The freshly created workbook with one sheet replaced or missing.
LegacyWorkbooks ==
  UNION {{[t \in Titles |-> IF t = u THEN g ELSE NewWorkbook[t]] : g \in LegacyGrids(u)} : u \in Titles}
  \cup {[t \in Titles \ {u} |-> NewWorkbook[t]] : u \in Titles}

SchemaInputs == {NoFile, Corrupt} \cup {WbFile(w) : w \in LegacyWorkbooks}

-----------------------------------------------------------------------------
(* SpecSchema: _ensure_workbook run, and run again, on a file found at     *)
(* start.                                                                  *)

MaxEnsureRuns == 2

InitSchema ==
  /\ file \in SchemaInputs
  /\ snaps = <<>>
  /\ now = 0
  /\ initDone = FALSE
  /\ fx = EmptyFxCache(TRUE)
  /\ last = NoLast
  /\ ThreadsIdle

\* One call of _ensure_workbook (app.py 1085, the start of the process).
Ensure ==
  /\ last.n < MaxEnsureRuns
  /\ LET r == EnsureWorkbook(file)
     IN  /\ file' = r.file
         /\ last' = [op |-> "ensure", arg |-> NoArg, before |-> file, after |-> r.file,
                     writes |-> r.writes, resp |-> IF r.raised THEN "exception" ELSE "ok",
                     n |-> last.n + 1]
  /\ UNCHANGED <<snaps, now, initDone, fx, threadVars>>

NextSchema == Ensure

SpecSchema == InitSchema /\ [][NextSchema]_vars

-----------------------------------------------------------------------------
(* SpecSeq: the requests served one at a time, each handler from its first *)
(* line to its response.  The requests come from a logged-in admin, so     *)
(* require_login and require_admin let them pass.                          *)

MaxOps == 2

MaxTime == 1

MaxId == 2

\* The bodies of the requests.
DirInputs ==
  {[type |-> ty, name |-> S(" Alpha "), email |-> S("a@x"), phone |-> None, address |-> None] :
     ty \in {S("supplier"), S("broker")}}

DirPatches ==
  {<<>>, ("email" :> S("b@x")), ("name" :> None) @@ ("phone" :> S("123")), ("type" :> S("workshop"))}

VesselNames == {S(" Alpha "), S("Beta"), S(" ")}

CatInputs == {[name |-> S("General"), abbr |-> S("GEN")], [name |-> S("Engine"), abbr |-> S("eng")]}

CatPatches == {("abbr" :> S("ENG")), ("name" :> S("Renamed")), ("abbr" :> S("GEN")) @@ ("name" :> None)}

ReqInputs ==
  {("number" :> nr) @@ ("vessel" :> S("Beta")) @@ ("supplier" :> S("Alpha"))
     @@ ("date_ordered" :> S("d1")) @@ ("category" :> cat) @@ ("amount" :> I(10000)) @@ cur :
     nr \in {S(" PO-1 "), S("PO-2")}, cat \in {S("gen"), S("zzz")},
     cur \in {<<>>, ("currency" :> S("eur"))}}
  \cup {("number" :> S("PO-3")) @@ ("vessel" :> S("Beta"))}

ReqPatches ==
  {("paid" :> I(1)),
   ("currency" :> S("eur")),
   ("amount" :> I(5000)),
   ("total_amount" :> I(700)) @@ ("delivered" :> I(1)),
   ("number" :> S("PO-2")),
   ("category" :> S("gen")) @@ ("expected" :> S("d2")),
   ("vessel" :> S("Alpha")) @@ ("status" :> S("bogus")),
   ("status" :> S("Cancelled")) @@ ("supplier" :> None)}

LandInputs ==
  {("vessel" :> S("Beta")) @@ ("item" :> S("pump")) @@ ("workshop" :> S("Alpha"))
     @@ ("amount" :> I(2000)) @@ cur : cur \in {<<>>, ("currency" :> S("eur"))}}

LandPatches ==
  {("paid" :> I(1)),
   ("currency" :> S("usd")),
   ("amount" :> I(300)) @@ ("currency" :> S("xxx")),
   ("item" :> S("valve")) @@ ("status" :> S("open")),
   ("status" :> S("bogus")) @@ ("delivered" :> I(1))}

\* What the rate provider answers: nothing (a failure), or rates.
FetchOutcomes == {<<>>, ("EUR" :> 90)}

\* The workbook after one vessel, one category, one directory entry, one
\* requisition and one landing were added to the freshly created one.
SeededWorkbook ==
  LET w1 == VesselAdd(NewWorkbook, "Beta").wb
      w2 == CatAdd(w1, "General", "GEN").wb
      w3 == DirAdd(w2, [type |-> S("supplier"), name |-> S("Alpha"), email |-> S("a@x"),
                        phone |-> None, address |-> None]).wb
      w4 == ReqAdd(w3, ("number" :> S("PO-1")) @@ ("vessel" :> S("Beta")) @@ ("supplier" :> S("Alpha"))
                       @@ ("date_ordered" :> S("d1")) @@ ("category" :> S("GEN"))
                       @@ ("amount" :> I(10000)) @@ ("currency" :> S("EUR")), ("EUR" :> 90)).wb
  IN  LandAdd(w4, ("vessel" :> S("Beta")) @@ ("item" :> S("pump")) @@ ("workshop" :> S("Alpha"))
                  @@ ("amount" :> I(2000)), UsdOnly).wb

\* A workbook of an earlier version: Requisitions without the later columns and
\* with a column of the user's own, its data rows one cell wider than the header.
OldWorkbook ==
  [t \in Titles |-> IF t = "Requisitions" THEN LegacyGrid("Requisitions", 8, 1, 1, 1) ELSE NewWorkbook[t]]

\* The files an admin uploads.
UploadFiles == {Corrupt, WbFile(SeededWorkbook), WbFile(OldWorkbook)}

InitSeq ==
  /\ file \in {NoFile, Saved(SeededWorkbook)}
  /\ snaps = <<>>
  /\ now = 0
  /\ initDone = FALSE
  /\ fx = EmptyFxCache(TRUE)
  /\ last = NoLast
  /\ ThreadsIdle

\* _init_guard, app.py 455-459, before the first request.
InitGuard ==
  /\ ~initDone
  /\ file' = EnsureWorkbook(file).file
  /\ initDone' = ~EnsureWorkbook(file).raised
  /\ UNCHANGED <<snaps, now, fx, last, threadVars>>

\* The clock.
Tick ==
  /\ now < MaxTime
  /\ now' = now + 1
  /\ UNCHANGED <<file, snaps, initDone, fx, last, threadVars>>

\* The workbook load_workbook returns after _ensure_workbook (_open_wb).
WbOf(o) == IF o.raised THEN NewWorkbook ELSE o.file.wb

\* A handler that takes the lock, opens the workbook (o is what _open_wb's
\* _ensure_workbook did) and does h on it.
Serve(op, arg, o, h) ==
  /\ initDone
  /\ last.n < MaxOps
  /\ file' = IF o.raised THEN file ELSE IF h.save THEN Saved(h.wb) ELSE o.file
  /\ last' = [op |-> op, arg |-> arg, before |-> file, after |-> file',
              writes |-> IF o.raised THEN 0 ELSE o.writes + (IF h.save THEN 1 ELSE 0),
              resp |-> IF o.raised THEN "exception" ELSE h.resp,
              n |-> last.n + 1]
  /\ UNCHANGED <<snaps, now, initDone, threadVars>>

\* A request turned down before the lock is taken.
Reject(op, arg, resp) ==
  /\ initDone
  /\ last.n < MaxOps
  /\ last' = [op |-> op, arg |-> arg, before |-> file, after |-> file, writes |-> 0,
              resp |-> resp, n |-> last.n + 1]
  /\ UNCHANGED <<file, snaps, now, initDone, fx, threadVars>>

Arg(t, id, patch) == [t |-> t, id |-> id, patch |-> patch]

CanServe == initDone /\ last.n < MaxOps

\* The list handlers (dir_list, vessel_list, cat_list, req_list, land_list,
\* users_list): they open the workbook and read it.
ListRows ==
  /\ CanServe
  /\ LET o == EnsureWorkbook(file)
     IN  Serve("list", NoArg, o, Refuse(WbOf(o), "ok"))
  /\ UNCHANGED fx

\* dir_add, app.py 568-585.
SeqDirAdd ==
  /\ CanServe
  /\ LET o == EnsureWorkbook(file)
     IN  \E d \in DirInputs :
           IF d.type \notin {S("supplier"), S("workshop")} \/ StripV(d.name) = ""
           THEN Reject("add", Arg("Directory", 0, <<>>), "name_required")
           ELSE Serve("add", Arg("Directory", 0, <<>>), o, DirAdd(WbOf(o), d))
  /\ UNCHANGED fx

\* dir_update, app.py 606-621.
SeqDirUpdate ==
  /\ CanServe
  /\ LET o == EnsureWorkbook(file)
     IN  \E id \in 1..MaxId, patch \in DirPatches :
           Serve("update", Arg("Directory", id, patch), o, DirUpdate(WbOf(o), id, patch))
  /\ UNCHANGED fx

\* The delete handlers.
SeqDelete ==
  /\ CanServe
  /\ LET o == EnsureWorkbook(file)
     IN  \E t \in Titles \ {"Users"}, id \in 1..MaxId :
           Serve("delete", Arg(t, id, <<>>), o, DeleteById(WbOf(o), t, id))
  /\ UNCHANGED fx

\* vessel_add, app.py 647-666.
SeqVesselAdd ==
  /\ CanServe
  /\ LET o == EnsureWorkbook(file)
     IN  \E name \in VesselNames :
           IF StripV(name) = ""
           THEN Reject("add", Arg("Vessels", 0, <<>>), "bad_request")
           ELSE Serve("add", Arg("Vessels", 0, <<>>), o, VesselAdd(WbOf(o), StripV(name)))
  /\ UNCHANGED fx

\* vessel_update, app.py 668-694.
SeqVesselUpdate ==
  /\ CanServe
  /\ LET o == EnsureWorkbook(file)
     IN  \E id \in 1..MaxId, name \in VesselNames :
           IF StripV(name) = ""
           THEN Reject("update", Arg("Vessels", id, ("name" :> name)), "bad_request")
           ELSE Serve("update", Arg("Vessels", id, ("name" :> name)), o,
                      VesselUpdate(WbOf(o), id, StripV(name)))
  /\ UNCHANGED fx

\* cat_add, app.py 722-740.
SeqCatAdd ==
  /\ CanServe
  /\ LET o == EnsureWorkbook(file)
     IN  \E d \in CatInputs :
           IF StripV(d.name) = "" \/ StripV(d.abbr) = ""
           THEN Reject("add", Arg("Categories", 0, <<>>), "bad_request")
           ELSE Serve("add", Arg("Categories", 0, <<>>), o,
                      CatAdd(WbOf(o), StripV(d.name), StripV(d.abbr)))
  /\ UNCHANGED fx

\* cat_update, app.py 742-768.
SeqCatUpdate ==
  /\ CanServe
  /\ LET o == EnsureWorkbook(file)
     IN  \E id \in 1..MaxId, d \in CatPatches :
           Serve("update", Arg("Categories", id, d), o, CatUpdate(WbOf(o), id, d))
  /\ UNCHANGED fx

\* req_toggle_paid and land_toggle_paid.
SeqTogglePaid ==
  /\ CanServe
  /\ LET o == EnsureWorkbook(file)
     IN  \E t \in {"Requisitions", "Landings"}, id \in 1..MaxId :
           Serve("toggle_paid", Arg(t, id, <<>>), o, TogglePaid(WbOf(o), t, id))
  /\ UNCHANGED fx

\* The answers of the rate provider that matter to a conversion: when the
\* currency is USD no rates are asked for.
Fetches(currency) == IF currency = "USD" THEN {<<>>} ELSE FetchOutcomes

\* app.py 806-808: the fields req_add requires.
ReqComplete(d) ==
  /\ \A k \in {"number", "vessel", "supplier", "date_ordered", "category"} : ~Falsy(Get(d, k))
  /\ ReqAmountRaw(d) \notin {None, S("")}

\* req_add, app.py 800-848.
SeqReqAdd ==
  /\ CanServe
  /\ LET o == EnsureWorkbook(file)
     IN  \E d \in ReqInputs :
           IF ~ReqComplete(d)
           THEN Reject("add", Arg("Requisitions", 0, <<>>), "missing_fields")
           ELSE IF o.raised \/ ReqAddCheck(WbOf(o), d) # ""
           THEN /\ Serve("add", Arg("Requisitions", 0, <<>>), o, ReqAdd(WbOf(o), d, <<>>))
                /\ UNCHANGED fx
           ELSE \E fetched \in Fetches(CurrencyOf(d)) :
                  /\ fx' = FxAfterConvert(fx, CurrencyOf(d), now, fetched)
                  /\ Serve("add", Arg("Requisitions", 0, <<>>), o, ReqAdd(WbOf(o), d, fx'.rates))

\* app.py 976-978: the fields land_add requires.
LandComplete(d) ==
  /\ \A k \in {"vessel", "item", "workshop"} : ~Falsy(Get(d, k))
  /\ Get(d, "amount") \notin {None, S("")}

\* land_add, app.py 970-1002.
SeqLandAdd ==
  /\ CanServe
  /\ LET o == EnsureWorkbook(file)
     IN  \E d \in LandInputs :
           IF ~LandComplete(d)
           THEN Reject("add", Arg("Landings", 0, <<>>), "missing_fields")
           ELSE \E fetched \in Fetches(CurrencyOf(d)) :
                  /\ fx' = FxAfterConvert(fx, CurrencyOf(d), now, fetched)
                  /\ Serve("add", Arg("Landings", 0, <<>>), o, LandAdd(WbOf(o), d, fx'.rates))

\* req_update, app.py 865-937, and land_update, app.py 1019-1066.
SeqRecUpdate ==
  /\ CanServe
  /\ LET o == EnsureWorkbook(file)
         w == WbOf(o)
     IN  \E t \in {"Requisitions", "Landings"}, id \in 1..MaxId :
           \E patch \in IF t = "Requisitions" THEN ReqPatches ELSE LandPatches :
             LET u == UpdatePlan(w, t, id, patch)
             IN  \E fetched \in IF o.raised \/ ~u.converts THEN {<<>>} ELSE Fetches(u.currency) :
                   /\ fx' = IF o.raised \/ ~u.converts THEN fx
                            ELSE FxAfterConvert(fx, u.currency, now, fetched)
                   /\ Serve("update", Arg(t, id, patch), o, RecUpdate(w, t, id, patch, u, fx'.rates))

\* The backup file office_ops_backup_<ts>.xlsx is named by its timestamp ts.
\* shutil.copy2(src, dst): dst holds what src holds, whether or not it existed.
CopyTo(files, ts, content) ==
  [n \in (DOMAIN files) \cup {ts} |-> IF n = ts THEN content ELSE files[n]]

\* path.unlink()
Unlink(files, ts) == [n \in (DOMAIN files) \ {ts} |-> files[n]]

\* A request outside the lock: what it left of the file and what it answered.
Served(op, arg, f, writes, resp) ==
  /\ initDone
  /\ last.n < MaxOps
  /\ file' = f
  /\ last' = [op |-> op, arg |-> arg, before |-> file, after |-> f, writes |-> writes,
              resp |-> resp, n |-> last.n + 1]
  /\ UNCHANGED <<now, initDone, fx, threadVars>>

\* upload_excel, app.py 204-232, given the uploaded file f (NoFile: no file part).
UploadExcel ==
  \E f \in UploadFiles \cup {NoFile} :
    IF f = NoFile
    THEN Reject("upload", NoArg, "no_file")
    ELSE /\ snaps' = IF file.kind # "none" THEN CopyTo(snaps, now, file) ELSE snaps
         /\ Served("upload", Arg("", now, <<>>), EnsureWorkbook(f).file, 1 + EnsureWorkbook(f).writes,
                   IF EnsureWorkbook(f).raised THEN "exception" ELSE "ok")

\* restore_backup, app.py 145-163, for the backup named by ts.
RestoreBackup ==
  \E ts \in 0..MaxTime :
    IF ts \notin DOMAIN snaps
    THEN Reject("restore", Arg("", ts, <<>>), "not_found")
    ELSE /\ Served("restore", Arg("", ts, <<>>), EnsureWorkbook(snaps[ts]).file,
                   1 + EnsureWorkbook(snaps[ts]).writes,
                   IF EnsureWorkbook(snaps[ts]).raised THEN "exception" ELSE "ok")
         /\ UNCHANGED snaps

\* delete_backup, app.py 127-141.
DeleteBackup ==
  \E ts \in 0..MaxTime :
    IF ts \notin DOMAIN snaps
    THEN Reject("delete_backup", Arg("", ts, <<>>), "not_found")
    ELSE /\ snaps' = Unlink(snaps, ts)
         /\ Served("delete_backup", Arg("", ts, <<>>), file, 0, "ok")

\* download_backup, app.py 236-247: _ensure_workbook, then the file is sent.
DownloadBackup ==
  /\ Served("download", NoArg, EnsureWorkbook(file).file, EnsureWorkbook(file).writes,
            IF EnsureWorkbook(file).raised THEN "exception" ELSE "ok")
  /\ UNCHANGED snaps

NextSeq ==
  \/ InitGuard
  \/ Tick
  \/ ListRows
  \/ SeqDirAdd
  \/ SeqDirUpdate
  \/ SeqDelete
  \/ SeqVesselAdd
  \/ SeqVesselUpdate
  \/ SeqCatAdd
  \/ SeqCatUpdate
  \/ SeqTogglePaid
  \/ SeqReqAdd
  \/ SeqLandAdd
  \/ SeqRecUpdate
  \/ UploadExcel
  \/ RestoreBackup
  \/ DeleteBackup
  \/ DownloadBackup

SpecSeq == InitSeq /\ [][NextSeq]_vars

-----------------------------------------------------------------------------
(* SpecSave: add requests served one at a time, where the file cannot be   *)
(* written for the first k attempts of a save (it is briefly held by       *)
(* another program) and can be from then on.                               *)

MaxTransient == 2

\* _save_wb(wb), app.py 451-452, on a file that refuses the first k attempts:
\* wb.save is called once; when it raises, the file is as it was.
SaveWb(f, content, k) ==
  [file |-> IF k = 0 THEN content ELSE f, attempts |-> 1, raised |-> k > 0]

\* The adds served: the table, and what the handler does on workbook w.
SavingAdds(w) ==
  {[t |-> "Vessels", h |-> VesselAdd(w, n)] : n \in {"Alpha", "Gamma"}}
  \cup {[t |-> "Categories", h |-> CatAdd(w, c.name[2], c.abbr[2])] : c \in CatInputs}
  \cup {[t |-> "Directory", h |-> DirAdd(w, d)] : d \in {x \in DirInputs : x.type = S("supplier")}}

\* vessel_add, app.py 647-666, cat_add, app.py 722-740, and dir_add, app.py
\* 568-585, up to the response.
\* last.arg.id is k, and last.writes the number of calls of wb.save in _save_wb.
SeqAddSaving ==
  /\ CanServe
  /\ LET o == EnsureWorkbook(file)
     IN  \E k \in 0..MaxTransient, c \in SavingAdds(WbOf(o)) :
           LET sv == SaveWb(o.file, Saved(c.h.wb), k)
               saves == ~o.raised /\ c.h.save
           IN  /\ file' = IF o.raised THEN file ELSE IF saves THEN sv.file ELSE o.file
               /\ last' = [op |-> "add", arg |-> Arg(c.t, k, <<>>), before |-> file, after |-> file',
                           writes |-> IF saves THEN sv.attempts ELSE 0,
                           resp |-> IF o.raised \/ (saves /\ sv.raised) THEN "exception" ELSE c.h.resp,
                           n |-> last.n + 1]
  /\ UNCHANGED <<snaps, now, initDone, fx, threadVars>>

NextSave ==
  \/ InitGuard
  \/ SeqAddSaving

SpecSave == InitSeq /\ [][NextSave]_vars

-----------------------------------------------------------------------------
(* SpecFx: calls of _get_fx_rates as time passes, in a process with the    *)
(* requests library or without it, the rate provider answering with rates  *)
(* or failing.                                                             *)

FxStep == 1800

MaxFxTime == 7200

MaxFxCalls == 3

\* What the rate provider answers: nothing (a failure), or one of two rate sets.
FxFetchOutcomes == {<<>>, ("EUR" :> 90), ("EUR" :> 95) @@ ("GBP" :> 80)}

InitFx ==
  /\ file = NoFile
  /\ snaps = <<>>
  /\ now = 0
  /\ initDone = FALSE
  /\ fx \in {EmptyFxCache(lib) : lib \in BOOLEAN}
  /\ last = NoLast
  /\ ThreadsIdle

\* time.time() moves on.
FxTick ==
  /\ now < MaxFxTime
  /\ now' = now + FxStep
  /\ UNCHANGED <<file, snaps, initDone, fx, last, threadVars>>

\* One call of _get_fx_rates(), app.py 283-312.  last.resp tells whether the
\* provider was asked and what came of it.
GetRates ==
  /\ last.n < MaxFxCalls
  /\ \E fetched \in FxFetchOutcomes :
       /\ fx' = GetFxRates(fx, now, fetched)
       /\ last' = [op |-> "rates", arg |-> NoArg, before |-> file, after |-> file, writes |-> 0,
                   resp |-> IF ~FetchAttempted(fx, now) THEN "no_fetch"
                            ELSE IF fetched = <<>> THEN "fetch_failed" ELSE "fetched",
                   n |-> last.n + 1]
  /\ UNCHANGED <<file, snaps, now, initDone, threadVars>>

NextFx ==
  \/ FxTick
  \/ GetRates

SpecFx == InitFx /\ [][NextFx]_vars

-----------------------------------------------------------------------------
(* Spec: requests served by concurrent threads.  A request is the list of  *)
(* the steps it has left; a step is atomic, and a write of the live file   *)
(* is two steps, its start (the file is truncated) and its end.            *)
(*   acquire    with WB_LOCK: enter                                        *)
(*   ensure     _ensure_workbook: load, _upgrade_schema, start of the save *)
(*   write_end  the end of the write the thread has started                *)
(*   load       load_workbook in _open_wb, and the handler up to its save  *)
(*   save       _save_wb: start of the save                                *)
(*   release    with WB_LOCK: leave                                        *)
(*   snapshot   shutil.copy2(XLSX_PATH, backup_path)                       *)
(*   copy_in    f.save(XLSX_PATH) or shutil.copy2(path, XLSX_PATH): start  *)
(*   send       send_file(XLSX_PATH)                                       *)
(*   init_done  app._init_done = True                                      *)

MaxRequests == 3

\* The requests the threads serve.
Requests ==
  {[op |-> "add", name |-> n, f |-> NoFile, ts |-> 0] : n \in {"Alpha", "Gamma"}}
  \cup {[op |-> "upload", name |-> "", f |-> WbFile(OldWorkbook), ts |-> 0],
        [op |-> "restore", name |-> "", f |-> NoFile, ts |-> 0],
        [op |-> "download", name |-> "", f |-> NoFile, ts |-> 0]}

\* The steps of a handler, in order.
Script(op) ==
  CASE op = "add" -> <<"acquire", "ensure", "write_end", "load", "save", "write_end", "release">>
    [] op = "upload" -> <<"snapshot", "copy_in", "write_end", "ensure", "write_end">>
    [] op = "restore" -> <<"copy_in", "write_end", "ensure", "write_end">>
    [] op = "download" -> <<"ensure", "write_end", "send">>

\* _init_guard before the handler, when the flag is not set yet.
GuardSteps == IF initDone THEN <<>> ELSE <<"ensure", "write_end", "init_done">>

StepOf(p) == IF pc[p] = <<>> THEN "idle" ELSE Head(pc[p])

Advance(p) == pc' = [pc EXCEPT ![p] = Tail(pc[p])]

\* A slip: an exception that leaves the handler without giving the lock back.
AbortKeepsLock(p) ==
  /\ pc' = [pc EXCEPT ![p] = <<>>]
  /\ lock' = lock

\* An exception leaves the handler; a with block that is open gives the lock back.
Abort(p) ==
  /\ pc' = [pc EXCEPT ![p] = <<>>]
  /\ lock' = IF lock = p THEN 0 ELSE lock

\* The start of a write of content to the live file by thread p.
BeginWrite(p, seen, content) ==
  /\ file' = IF inflight # {} THEN Torn ELSE Partial
  /\ inflight' = inflight \cup {p}
  /\ mem' = [mem EXCEPT ![p] = [seen |-> seen, out |-> content]]

\* A thread takes up a request.
Begin(p) ==
  /\ pc[p] = <<>>
  /\ last.n < MaxRequests
  /\ \E r \in Requests :
       /\ req' = [req EXCEPT ![p] = r]
       /\ pc' = [pc EXCEPT ![p] = GuardSteps \o Script(r.op)]
  /\ mem' = [mem EXCEPT ![p] = NoMem]
  /\ last' = [last EXCEPT !.n = last.n + 1]
  /\ UNCHANGED <<file, snaps, now, initDone, fx, lock, inflight>>

\* with WB_LOCK (app.py 255 and every record handler).
Acquire(p) ==
  /\ StepOf(p) = "acquire"
  /\ lock = 0
  /\ lock' = p
  /\ Advance(p)
  /\ UNCHANGED <<file, snaps, now, initDone, fx, last, req, mem, inflight>>

\* _ensure_workbook, app.py 399-420, up to the start of its save.
EnsureStart(p) ==
  /\ StepOf(p) = "ensure"
  /\ LET o == EnsureWorkbook(file)
     IN  IF o.raised
         THEN /\ Abort(p)
              /\ mem' = [mem EXCEPT ![p].seen = file]
              /\ UNCHANGED <<file, inflight>>
         ELSE /\ BeginWrite(p, file, o.file)
              /\ Advance(p)
              /\ UNCHANGED lock
  /\ UNCHANGED <<snaps, now, initDone, fx, last, req>>

\* The end of a write: the file holds what was written, unless another writer
\* is still at it; after two writers at once it may hold either's bytes mixed.
WriteEnd(p) ==
  /\ StepOf(p) = "write_end"
  /\ inflight' = inflight \ {p}
  /\ file' \in IF inflight \ {p} # {} THEN {file}
               ELSE IF file.kind = "torn" THEN {mem[p].out, Corrupt}
               ELSE {mem[p].out}
  /\ Advance(p)
  /\ UNCHANGED <<snaps, now, initDone, fx, last, lock, req, mem>>

\* load_workbook in _open_wb (app.py 424) and vessel_add's work on what it read.
Load(p) ==
  /\ StepOf(p) = "load"
  /\ IF ~Readable(file)
     THEN /\ Abort(p)
          /\ mem' = [mem EXCEPT ![p].seen = file]
     ELSE LET h == VesselAdd(file.wb, req[p].name)
          IN  /\ mem' = [mem EXCEPT ![p] = [seen |-> file, out |-> Saved(h.wb)]]
              /\ pc' = [pc EXCEPT ![p] = IF h.save THEN Tail(pc[p]) ELSE <<"release">>]
              /\ UNCHANGED lock
  /\ UNCHANGED <<file, snaps, now, initDone, fx, last, req, inflight>>

\* _save_wb, app.py 451-452: the start of the save.
Save(p) ==
  /\ StepOf(p) = "save"
  /\ BeginWrite(p, mem[p].seen, mem[p].out)
  /\ Advance(p)
  /\ UNCHANGED <<snaps, now, initDone, fx, last, lock, req>>

\* The end of the with block.
Release(p) ==
  /\ StepOf(p) = "release"
  /\ lock' = 0
  /\ Advance(p)
  /\ UNCHANGED <<file, snaps, now, initDone, fx, last, req, mem, inflight>>

\* upload_excel, app.py 216-219: the backup copy of the live file as it is.
Snapshot(p) ==
  /\ StepOf(p) = "snapshot"
  /\ snaps' = IF file.kind = "none" THEN snaps
              ELSE CopyTo(snaps, now, IF file.kind = "torn" THEN Partial ELSE file)
  /\ mem' = [mem EXCEPT ![p].seen = file]
  /\ Advance(p)
  /\ UNCHANGED <<file, now, initDone, fx, last, lock, req, inflight>>

\* upload_excel, app.py 224, and restore_backup, app.py 154-158: the start of
\* the write of the uploaded file, or of the backup, over the live file.
CopyIn(p) ==
  /\ StepOf(p) = "copy_in"
  /\ IF req[p].op = "restore" /\ req[p].ts \notin DOMAIN snaps
     THEN /\ Abort(p)
          /\ UNCHANGED <<file, mem, inflight>>
     ELSE /\ BeginWrite(p, mem[p].seen, IF req[p].op = "upload" THEN req[p].f ELSE snaps[req[p].ts])
          /\ Advance(p)
          /\ UNCHANGED lock
  /\ UNCHANGED <<snaps, now, initDone, fx, last, req>>

\* download_backup, app.py 243-247: the live file is read and sent.
Send(p) ==
  /\ StepOf(p) = "send"
  /\ mem' = [mem EXCEPT ![p].seen = file]
  /\ Advance(p)
  /\ UNCHANGED <<file, snaps, now, initDone, fx, last, lock, req, inflight>>

\* _init_guard, app.py 459.
InitDone(p) ==
  /\ StepOf(p) = "init_done"
  /\ initDone' = TRUE
  /\ Advance(p)
  /\ UNCHANGED <<file, snaps, now, fx, last, lock, req, mem, inflight>>

Next ==
  \E p \in Threads :
    \/ Begin(p)
    \/ Acquire(p)
    \/ EnsureStart(p)
    \/ WriteEnd(p)
    \/ Load(p)
    \/ Save(p)
    \/ Release(p)
    \/ Snapshot(p)
    \/ CopyIn(p)
    \/ Send(p)
    \/ InitDone(p)

Spec == InitSeq /\ [][Next]_vars

-----------------------------------------------------------------------------
(* Claims about _ensure_workbook, under SpecSchema *)

\* The sheet of title t is in the workbook and its header row names every
\* column of SHEETS[t].
HasAllColumns(w, t) ==
  /\ t \in DOMAIN w
  /\ \A c \in Range(SHEETS[t]) : S(c) \in Range(Headers(w[t]))

SchemaComplete(w) == \A t \in Titles : HasAllColumns(w, t)

EnsureRan == last.op = "ensure" /\ Readable(last.before) /\ last.resp = "ok"

\* C8: after _ensure_workbook returns on an existing readable workbook, every
\* table of SHEETS exists and its header row holds every column of the table's
\* definition.
C8_EnsureCompletesSchema == EnsureRan => SchemaComplete(last.after.wb)

\* C9: the migration is additive.  For every sheet the workbook had: each header
\* cell that named a column still names it at the same place, each data row is
\* where it was with the same cell under every column, no row is added or
\* dropped, and a column whose header cell is new is empty in every data row.
C9_MigrationAdditive ==
  EnsureRan =>
    \A t \in DOMAIN last.before.wb :
      /\ t \in DOMAIN last.after.wb
      /\ LET b == last.before.wb[t]
             a == last.after.wb[t]
         IN  /\ Len(a) >= Len(b)
             /\ (Len(b) >= 2 => Len(a) = Len(b))
             /\ \A j \in 1..MaxCol(a) :
                  /\ Cell(b, 1, j) # None => Cell(a, 1, j) = Cell(b, 1, j)
                  /\ \A i \in 2..MaxRow(a) :
                       /\ Cell(a, i, j) = Cell(b, i, j)
                       /\ (Cell(b, 1, j) = None /\ Cell(a, 1, j) # None => Cell(a, i, j) = None)

\* C9's case: a column was added to a sheet that had data rows.
C9_Witness ==
  /\ EnsureRan
  /\ \E t \in DOMAIN last.before.wb :
       /\ Len(last.before.wb[t]) >= 2
       /\ Headers(last.after.wb[t]) # Headers(last.before.wb[t])

\* C10: a run of _ensure_workbook on a workbook that already has every required
\* table and column writes nothing to the file.
C10_NoRewriteWhenComplete ==
  (EnsureRan /\ SchemaComplete(last.before.wb)) => last.writes = 0

-----------------------------------------------------------------------------
(* Claims about the requests served one at a time, under SpecSeq *)

\* The last request was a delete that found its row and took it out.
DeletedRow ==
  /\ last.op = "delete" /\ last.resp = "ok"
  /\ Readable(last.before) /\ Readable(last.after)
  /\ FindRowIndexBy(last.before.wb[last.arg.t], "id", I(last.arg.id)) # 0
  /\ FindRowIndexBy(last.after.wb[last.arg.t], "id", I(last.arg.id)) = 0

\* C2: ids are never reused.  Once the row with id k of a table is deleted,
\* _next_id on that table does not return k; after one row was added to an
\* empty table and deleted, it returns 2.
C2_IdsNeverReused ==
  DeletedRow => NextId(last.after.wb[last.arg.t]) # last.arg.id

\* The last request was an update that was accepted, on a workbook that is read.
UpdateOk ==
  /\ last.op = "update" /\ last.resp = "ok"
  /\ Readable(last.before) /\ Readable(last.after)

\* The row an update addresses, in the workbook it found.
UpdatedRow == FindRowIndexBy(last.before.wb[last.arg.t], "id", I(last.arg.id))

\* Every cell of workbook a that differs from workbook b is in sheet t, row idx,
\* under a header cell naming one of keys; and the sheets are the same ones.
OnlyChanged(b, a, t, idx, keys) ==
  /\ DOMAIN a = DOMAIN b
  /\ \A u \in DOMAIN b :
       \A i \in 1..SetMax({Len(a[u]), Len(b[u]), 1}), j \in 1..SetMax({MaxCol(a[u]), MaxCol(b[u])}) :
         Cell(a[u], i, j) # Cell(b[u], i, j)
           => u = t /\ i = idx /\ i # 1 /\ Cell(b[u], 1, j) \in {S(k) : k \in keys}

\* The columns the amount block of req_update and land_update writes when the
\* patch names the amount or the currency.
Derived(t, patch) ==
  IF t \in {"Requisitions", "Landings"} /\ TouchesAmount(t, patch)
  THEN {AmountCol(t), "currency", OriginalCol(t)}
  ELSE {}

\* C4 as the specification states it: an accepted update changes only the
\* columns named in the patch, in the row it addresses; every other column of
\* the row, every other row and every other table is as before.
C4_UpdateOnlyPatched ==
  UpdateOk => OnlyChanged(last.before.wb, last.after.wb, last.arg.t, UpdatedRow,
                          DOMAIN last.arg.patch)

\* C4: an accepted update changes only the row it addresses, and in it only
\* the columns named in the patch and, when the patch names the amount or the
\* currency of a requisition or a landing, the USD amount, the currency and the
\* original amount, which the handler computes anew.
C4_UpdateOnlyPatchedOrDerived ==
  UpdateOk => OnlyChanged(last.before.wb, last.after.wb, last.arg.t, UpdatedRow,
                          (DOMAIN last.arg.patch) \cup Derived(last.arg.t, last.arg.patch))

\* An accepted update of a requisition's currency alone that changed its USD amount.
C4_Witness ==
  /\ UpdateOk
  /\ last.arg.t = "Requisitions"
  /\ DOMAIN last.arg.patch = {"currency"}
  /\ RowGet(last.after.wb["Requisitions"], UpdatedRow, "total_amount")
       # RowGet(last.before.wb["Requisitions"], UpdatedRow, "total_amount")

\* C5: a snapshot, once created, is never mutated.  In every step each backup
\* file that stays holds what it held, and a backup an upload creates has a
\* name no backup had.
C5_SnapshotsImmutable ==
  [][/\ \A ts \in (DOMAIN snaps) \cap (DOMAIN snaps') : snaps'[ts] = snaps[ts]
     /\ (last'.op = "upload" /\ last'.n # last.n /\ snaps' # snaps) => last'.arg.id \notin DOMAIN snaps]_vars

\* The last request was a restore of a backup that exists.
RestoreRan == last.op = "restore" /\ last.resp # "not_found" /\ last.arg.id \in DOMAIN snaps

-----------------------------------------------------------------------------
(* Claims about concurrent requests, under Spec *)

\* Thread q has loaded the workbook in a record handler and has its save ahead.
BetweenLoadAndSave(q) ==
  /\ req[q].op = "add"
  /\ "save" \in Range(pc[q])
  /\ "load" \notin Range(pc[q])

\* C1: at most one mutation of the live file is in flight.  While a thread is
\* writing the live file (a handler's save, _ensure_workbook's save, the copy
\* of restore_backup or of upload_excel), no other thread is writing it and no
\* other thread is between its load and its save of it.
C1_OneMutationInFlight ==
  \A p \in inflight : \A q \in Threads \ {p} : q \notin inflight /\ ~BetweenLoadAndSave(q)

\* The tables whose rows carry an id.
Tables == Titles \ {"Users"}

\* No two rows of the sheet carry the same id.
UniqueIds(g) ==
  LET col == HIndex(Headers(g), "id")
  IN  col # 0 =>
        \A i, j \in 2..Len(g) : (i # j /\ Cell(g, i, col) # None) => Cell(g, i, col) # Cell(g, j, col)

UniqueIdsIn(f) == Readable(f) => \A t \in Tables \cap DOMAIN f.wb : UniqueIds(f.wb[t])

\* Thread p is inside the with WB_LOCK block of an add handler.
InAddSection(p) ==
  /\ req[p].op = "add"
  /\ "release" \in Range(pc[p])
  /\ "acquire" \notin Range(pc[p])

\* C3: under any interleaving of concurrent adds, no two rows of a table carry
\* the same id, in the live file and in every workbook a handler is saving; and
\* no two add handlers are at once between taking the lock and giving it back,
\* so no append comes between another add's _next_id and its append.
C3_UniqueIdsUnderConcurrentAdds ==
  /\ UniqueIdsIn(file)
  /\ \A p \in Threads : UniqueIdsIn(mem[p].out)
  /\ \A p, q \in Threads : p # q => ~(InAddSection(p) /\ InAddSection(q))

\* An add is saving the row it appended, with the id after that of a row an
\* earlier add of this run appended, while another add waits for the lock.
C3_Witness ==
  \E p, q \in Threads :
    /\ p # q
    /\ req[p].op = "add" /\ req[q].op = "add"
    /\ StepOf(q) = "acquire"
    /\ lock = p /\ p \in inflight /\ pc[p] = <<"write_end", "release">>
    /\ Readable(mem[p].seen) /\ Readable(mem[p].out)
    /\ NextId(mem[p].out.wb["Vessels"]) = NextId(mem[p].seen.wb["Vessels"]) + 1
    /\ NextId(mem[p].seen.wb["Vessels"]) > NextId(NewWorkbook["Vessels"])

\* C6: no reader of the live file observes it partially rewritten.  No backup
\* copy holds a truncated file, and no load, copy or download of the live file
\* read it while a write of it was under way.
C6_NoPartialRead ==
  /\ \A ts \in DOMAIN snaps : snaps[ts].kind # "partial"
  /\ \A p \in Threads : mem[p].seen.kind \notin {"partial", "torn"}

-----------------------------------------------------------------------------
(* More claims about _ensure_workbook, under SpecSchema *)

\* Every data row of every sheet of workbook b is in workbook a, at its place
\* and with its cells.
KeepsDataRows(b, a) ==
  \A t \in DOMAIN b :
    /\ t \in DOMAIN a
    /\ \A i \in 2..Len(b[t]) : \A j \in 1..MaxCol(b[t]) : Cell(a[t], i, j) = Cell(b[t], i, j)

\* C11: _ensure_workbook is idempotent on content.  A run on a readable
\* workbook keeps every data row it found, and a run that follows a run leaves
\* the sheets, header rows and data rows exactly as the earlier run left them.
C11_EnsureIdempotent ==
  [][(Readable(file) /\ last'.n # last.n) =>
       /\ Readable(file')
       /\ KeepsDataRows(file.wb, file'.wb)
       /\ last.op = "ensure" => file' = file]_vars

\* Two runs were made on a Requisitions sheet with data rows whose header the
\* first run had to extend after the user's own column.
C11_Witness ==
  /\ EnsureRan /\ last.n = 2
  /\ Len(last.after.wb["Requisitions"]) >= 2
  /\ HIndex(Headers(last.after.wb["Requisitions"]), "notes") # 0
  /\ HIndex(Headers(last.after.wb["Requisitions"]), "notes")
       < HIndex(Headers(last.after.wb["Requisitions"]), "original_amount")

\* The Users sheet of the workbook has a row for admin with a password hash.
HasAdmin(w) ==
  /\ "Users" \in DOMAIN w
  /\ \E i \in 2..Len(w["Users"]) :
       /\ RowGet(w["Users"], i, "username") = S("admin")
       /\ ~Falsy(RowGet(w["Users"], i, "password_hash"))

\* C12: after _ensure_workbook returns, on a workbook it created or on one it
\* found, the Users sheet holds the admin account with a non-empty hash.
C12_AdminSeeded ==
  (last.op = "ensure" /\ last.resp = "ok" /\ Readable(last.after)) => HasAdmin(last.after.wb)

-----------------------------------------------------------------------------
(* More claims about the requests served one at a time, under SpecSeq *)

\* The ids _sheet_rows returns for a sheet, in the order of its rows.
ListIds(g) == [k \in 1..Len(SheetRows(g)) |-> RowGet(g, SheetRows(g)[k], "id")]

\* The ids 1..n in order.
FirstIds(n) == [k \in 1..n |-> I(k)]

\* The last request was an add that was accepted, on a workbook that is read.
AddOk ==
  /\ last.op = "add" /\ last.resp = "ok"
  /\ Readable(last.before) /\ Readable(last.after)

\* C13: N adds to a table without data rows, with no delete in between, leave
\* _sheet_rows returning N rows with the ids 1..N in the order of the adds.
\* Stated as the step from N to N + 1: an accepted add to a table whose rows
\* carry the ids 1..N in order (none when N = 0) leaves the ids 1..N+1 in order.
C13_IdsOneToN ==
  AddOk =>
    LET b == last.before.wb[last.arg.t]
        a == last.after.wb[last.arg.t]
        n == Len(SheetRows(b))
    IN  ListIds(b) = FirstIds(n) => ListIds(a) = FirstIds(n + 1)

\* Two vessels were added to a freshly created workbook, one after the other.
C13_Witness ==
  /\ AddOk /\ last.n = 2 /\ last.arg.t = "Vessels"
  /\ ListIds(last.before.wb["Vessels"]) = FirstIds(1)
  /\ ListIds(last.after.wb["Vessels"]) = FirstIds(2)
  /\ \A t \in Titles \ {"Users", "Vessels"} : Len(last.after.wb[t]) = 1

\* The last request was an update or a delete by an id that no row of its
\* table carries.
UnknownId ==
  /\ last.op \in {"update", "delete"}
  /\ Readable(last.before)
  /\ last.arg.t \in DOMAIN last.before.wb
  /\ FindRowIndexBy(last.before.wb[last.arg.t], "id", I(last.arg.id)) = 0

\* C14: an update or a delete by an id that matches no row tells the caller
\* that nothing was found, and leaves every table as it was.
C14_NotFoundReported ==
  UnknownId => last.resp = "not_found" /\ last.after = last.before

-----------------------------------------------------------------------------
(* Claims about a save that fails at first, under SpecSave *)

\* C15: a save that fails transiently is tried again, a bounded number of
\* times (at most 6).  An add whose save is refused k times, 1 <= k <= 5, and
\* would pass then, is answered ok and its row is in the file; and no save is
\* tried more than 6 times.
C15_SaveRetried ==
  (last.op = "add" /\ last.writes >= 1) =>
    /\ last.writes <= 6
    /\ last.arg.id \in 1..5 => (last.resp = "ok" /\ last.after # last.before)

-----------------------------------------------------------------------------
(* Claims about _get_fx_rates, under SpecFx *)

\* This step is a call of _get_fx_rates.
RatesCall == last'.n # last.n /\ last'.op = "rates"

C17_CacheChangesOnSuccessOnly ==
  [][(RatesCall /\ last'.resp # "fetched") => fx' = fx]_vars

\* C18 as the specification states it: the cached rates are returned without a
\* fetch when the cache holds rates younger than the TTL, and a fetch is
\* attempted when the cache is empty or has reached the TTL.
C18_FetchWhenStale ==
  [][RatesCall =>
       IF fx.rates # <<>> /\ now - fx.timestamp < FxTtl
       THEN last'.resp = "no_fetch" /\ fx' = fx
       ELSE last'.resp \in {"fetched", "fetch_failed"}]_vars

\* C18: the cached rates are returned without a fetch when the cache holds
\* rates younger than the TTL; when the cache is empty or has reached the TTL,
\* a fetch is attempted if the requests library was imported, and otherwise
\* none is and the USD-only table is stored and returned.
C18_FetchWhenStaleAndAble ==
  [][RatesCall =>
       IF fx.rates # <<>> /\ now - fx.timestamp < FxTtl
       THEN last'.resp = "no_fetch" /\ fx' = fx
       ELSE IF fx.requests THEN last'.resp \in {"fetched", "fetch_failed"}
       ELSE last'.resp = "no_fetch" /\ fx'.rates = UsdOnly /\ fx'.timestamp = now]_vars

\* A second or later call fetched anew, at a time by which the TTL had passed.
C18_Witness ==
  /\ last.op = "rates" /\ last.resp = "fetched"
  /\ last.n >= 2
  /\ fx.timestamp = now /\ now >= FxTtl

-----------------------------------------------------------------------------
(* An unreadable workbook file.                                            *)

\* A file is at the live path and load_workbook cannot read it.
Unreadable(f) == f.kind \notin {"none", "wb"}

\* The file _ensure_workbook writes when it starts from scratch.
FreshFile == Saved(UpgradeSchema(NewWorkbook))

\* The step is a request that has answered.
Answered == last'.n # last.n

\* The step is an upload or a restore that put another file at the live path.
LiveReplaced == Answered /\ last'.op \in {"upload", "restore"} /\ last'.writes > 0

\* C19: an unreadable workbook file surfaces as an error and is never replaced
\* by a workbook created from scratch. A step that does not put another file at
\* the live path leaves an unreadable file as it is, and a request that reads the
\* workbook then ends in an exception; such a step creates the fresh workbook
\* only where no file existed; an upload or a restore whose file cannot be
\* loaded ends in an exception with that file at the live path, and leaves the
\* fresh workbook only when it restored a readable backup.
C19_CorruptFileNotReplaced ==
  [][/\ (Unreadable(file) /\ ~LiveReplaced) =>
          /\ file' = file
          /\ (Answered /\ last'.op \in {"list", "download"}) => last'.resp = "exception"
     /\ (~LiveReplaced /\ file' # file /\ file' = FreshFile) => file.kind \in {"none", "wb"}
     /\ (~LiveReplaced /\ file.kind = "none" /\ file' # file) => file' = FreshFile
     /\ LiveReplaced =>
          /\ Unreadable(file') <=> last'.resp = "exception"
          /\ file' = FreshFile => (last'.op = "restore" /\ Readable(snaps[last'.arg.id]))]_vars

\* A request read the workbook while an uploaded unreadable file was at the live
\* path: it ended in an exception and the file is still there.
C19_Witness ==
  /\ last.op \in {"list", "download"} /\ last.resp = "exception"
  /\ last.before = Corrupt /\ file = Corrupt

-----------------------------------------------------------------------------
(* Workbooks whose Requisitions and Landings headers hold the defined      *)
(* columns in another order, and the add handlers on them.                 *)

\* The defined columns with the ones at places i and j exchanged.
Swapped(hs, i, j) ==
  SubSeq([k \in 1..Len(hs) |-> IF k = i THEN hs[j] ELSE IF k = j THEN hs[i] ELSE hs[k]], 1, Len(hs))

\* The defined columns from the last to the first.
Reversed(hs) == SubSeq([k \in 1..Len(hs) |-> hs[Len(hs) + 1 - k]], 1, Len(hs))

\* The orders in which the header row of table t holds SHEETS[t].
HeaderOrders(t) == {SHEETS[t], Swapped(SHEETS[t], 3, 4), Reversed(SHEETS[t])}

\* The sheet g with its columns in the order hs, each cell under its column's name.
Relaid(g, hs) ==
  Canon(SubSeq([r \in 1..Len(g) |->
                  SubSeq([c \in 1..Len(hs) |->
                            IF r = 1 THEN S(hs[c]) ELSE Cell(g, r, HIndex(Headers(g), hs[c]))],
                         1, Len(hs))],
               1, Len(g)))

InitHeaders ==
  /\ \E ro \in HeaderOrders("Requisitions"), lo \in HeaderOrders("Landings") :
       file = Saved([SeededWorkbook EXCEPT !["Requisitions"] = Relaid(@, ro),
                                           !["Landings"] = Relaid(@, lo)])
  /\ snaps = <<>>
  /\ now = 0
  /\ initDone = FALSE
  /\ fx = EmptyFxCache(TRUE)
  /\ last = NoLast
  /\ ThreadsIdle

NextHeaders ==
  \/ InitGuard
  \/ SeqReqAdd
  \/ SeqLandAdd

SpecHeaders == InitHeaders /\ [][NextHeaders]_vars

\* The last request added a record to table t.
AddedTo(t) == last.op = "add" /\ last.arg.t = t /\ last.resp = "ok"

\* The row the last request left at the end of table t holds v under column key,
\* and it is the one row more than the table had.
LastRowHolds(t, key, vs) ==
  LET g == last.after.wb[t]
  IN  /\ MaxRow(g) = MaxRow(last.before.wb[t]) + 1
      /\ RowGet(g, MaxRow(g), key) \in vs

\* C20: a record added through req_add or land_add is appended after all
\* existing rows with each supplied field under the column bearing that field's
\* name, in whatever order the header row holds the defined columns.
C20_AppendByName ==
  /\ AddedTo("Requisitions") =>
        /\ LastRowHolds("Requisitions", "number", {S("PO-1"), S("PO-2")})
        /\ LastRowHolds("Requisitions", "vessel", {S("Beta")})
        /\ LastRowHolds("Requisitions", "supplier", {S("Alpha")})
        /\ LastRowHolds("Requisitions", "date_ordered", {S("d1")})
        /\ LastRowHolds("Requisitions", "category", {S("gen")})
  /\ AddedTo("Landings") =>
        /\ LastRowHolds("Landings", "vessel", {S("Beta")})
        /\ LastRowHolds("Landings", "item", {S("pump")})
        /\ LastRowHolds("Landings", "workshop", {S("Alpha")})

\* The same where both header rows hold the columns in the defined order.
C20_AppendInDefinedOrder ==
  (/\ last.before.kind = "wb"
   /\ Headers(last.before.wb["Requisitions"]) = HeaderRow("Requisitions")
   /\ Headers(last.before.wb["Landings"]) = HeaderRow("Landings")) => C20_AppendByName

-----------------------------------------------------------------------------
(* Workbooks edited by hand: id cells that hold the text of a number, and  *)
(* ids that occur twice.  The update and delete handlers on them.          *)

\* The id cells a hand-edited sheet holds.
EditedIds == {I(1), S("1"), I(2), S("2")}

\* The Directory and Vessels sheets with two rows whose id cells are a and b.
EditedWorkbook(a, b) ==
  [SeededWorkbook EXCEPT
     !["Directory"] = <<HeaderRow("Directory"),
                        <<a, S("supplier"), S("Alpha"), S("a@x")>>,
                        <<b, S("broker"), S("Gamma"), S("g@x")>>>>,
     !["Vessels"] = <<HeaderRow("Vessels"), <<a, S("Beta")>>, <<b, S("Delta")>>>>]

InitEdited ==
  /\ \E a \in EditedIds, b \in EditedIds : file = Saved(EditedWorkbook(a, b))
  /\ snaps = <<>>
  /\ now = 0
  /\ initDone = FALSE
  /\ fx = EmptyFxCache(TRUE)
  /\ last = NoLast
  /\ ThreadsIdle

NextEdited ==
  \/ InitGuard
  \/ SeqDelete
  \/ SeqDirUpdate
  \/ SeqVesselUpdate

SpecEdited == InitEdited /\ [][NextEdited]_vars

\* The id cell v equals the number id once both are written as text.
SameIdText(v, id) == CanInt(v) /\ IntOf(v) = id

\* The first row from the top whose id cell matches id as text; 0 for none.
FirstMatch(g, id) ==
  LET at == {i \in 2..MaxRow(g) : SameIdText(RowGet(g, i, "id"), id)}
  IN  IF at = {} THEN 0 ELSE CHOOSE i \in at : \A k \in at : i <= k

\* The last request was an update or a delete by id that did not raise.
ByIdRequest == last.op \in {"update", "delete"} /\ last.before.kind = "wb" /\ last.resp # "exception"

\* What the last by-id request did to its table, given the row m it should match.
AffectsRow(m) ==
  LET t == last.arg.t
      g == last.before.wb[t]
      h == last.after.wb[t]
  IN  IF m = 0 THEN h = g
      ELSE IF last.op = "delete" THEN h = Canon(DeleteRow(g, m))
      ELSE last.resp # "not_found"

\* C21: update-by-id and delete-by-id match the id column by string-normalized
\* equality, and the first matching row from the top is the one affected: a
\* delete removes exactly that row, and an update of it is not answered
\* not_found.
C21_MatchByIdText ==
  ByIdRequest => AffectsRow(FirstMatch(last.before.wb[last.arg.t], last.arg.id))

\* The same where the matching id cells hold numbers: the first row whose id
\* cell is the number itself is the one affected.
C21_MatchByIdNumber ==
  ByIdRequest => AffectsRow(FindRowIndexBy(last.before.wb[last.arg.t], "id", I(last.arg.id)))

-----------------------------------------------------------------------------
(* convert_to_usd on its own, app.py 329-355, over the payloads the rate   *)
(* provider can answer.                                                    *)

\* In a payload, a rate that is not a number: a JSON value float() rejects
\* (app.py 345), such as the text "N/A".
NotANumber == -1

\* convert_to_usd given the rates _get_fx_rates returned: whether float(r)
\* raises, and the amount in USD when it does not.
ConvertOutcome(amount, currency, rates) ==
  IF currency # "USD" /\ currency \in DOMAIN rates /\ rates[currency] = NotANumber
  THEN [raised |-> TRUE, usd |-> 0]
  ELSE [raised |-> FALSE, usd |-> ConvertToUsd(amount, currency, rates)]

\* Amounts in hundredths, currency codes after .upper(), and what the provider
\* answers: a failure, a rate, a zero rate, a rate that is not a number.
ConvertAmounts == {0, 333, 10000}

ConvertCurrencies == {"USD", "EUR", "GBP", "XXX"}

ConvertPayloads == {<<>>, ("EUR" :> 90), ("EUR" :> 0) @@ ("XXX" :> 200), ("EUR" :> NotANumber)}

Convert ==
  /\ last.n < MaxFxCalls
  /\ \E amount \in ConvertAmounts, currency \in ConvertCurrencies, fetched \in ConvertPayloads :
       /\ fetched # <<>> => FetchAttempted(fx, now) /\ currency # "USD"
       /\ fx' = FxAfterConvert(fx, currency, now, fetched)
       /\ LET o == ConvertOutcome(amount, currency, fx'.rates)
          IN  last' = [op |-> "convert", arg |-> Arg(currency, amount, fx'.rates),
                       before |-> NoFile, after |-> NoFile, writes |-> 0,
                       resp |-> IF o.raised THEN "exception" ELSE "ok",
                       n |-> last.n + 1, usd |-> o.usd]
  /\ UNCHANGED <<file, snaps, now, initDone, threadVars>>

NextConvert ==
  \/ FxTick
  \/ Convert

SpecConvert == InitFx /\ [][NextConvert]_vars

\* The last call of convert_to_usd returned, with a live rate for its currency.
ConvertedLive ==
  /\ last.op = "convert" /\ last.resp = "ok" /\ last.arg.t # "USD"
  /\ last.arg.t \in DOMAIN last.arg.patch
  /\ last.arg.patch[last.arg.t] > 0

\* C22: convert_to_usd is the identity when the currency is USD, and with a
\* non-zero live rate r (1 USD = r units of the currency) it returns amount / r:
\* in hundredths, the largest value whose r-fold does not exceed the amount.
C22_ConvertDividesByRate ==
  /\ (last.op = "convert" /\ last.arg.t = "USD") => (last.resp = "ok" /\ last.usd = last.arg.id)
  /\ ConvertedLive =>
        LET r == last.arg.patch[last.arg.t]
        IN  /\ r * last.usd <= last.arg.id * 100
            /\ last.arg.id * 100 < r * (last.usd + 1)

\* 100 EUR at the rate EUR = 0.90 came out as 111.11.
C22_Witness ==
  /\ ConvertedLive /\ last.arg.t = "EUR"
  /\ last.arg.id = 10000 /\ last.arg.patch["EUR"] = 90 /\ last.usd = 11111

\* C23: convert_to_usd degrades instead of raising. It never raises; when the
\* currency has no live rate the static table's rate is used, and when it is in
\* neither table the amount is returned unconverted.
C23_ConvertNeverRaises ==
  last.op = "convert" =>
    /\ last.resp # "exception"
    /\ (last.arg.t # "USD" /\ last.arg.t \notin DOMAIN last.arg.patch) =>
          last.usd = IF last.arg.t \in DOMAIN StaticCurrencyToUsd
                     THEN TimesMillionths(last.arg.id, StaticCurrencyToUsd[last.arg.t])
                     ELSE last.arg.id

\* The same for the lookup outcomes other than a rate that is not a number: a
\* missing currency, a zero rate and a failed fetch.
C23_ConvertDegrades ==
  (last.op = "convert" /\ NotANumber \notin Range(last.arg.patch)) => C23_ConvertNeverRaises

-----------------------------------------------------------------------------
(* delete_backup by file name, app.py 127-141.  The name is the <filename> *)
(* segment of the route: any text without "/".  path = DATA_DIR / filename *)
(* designates a file of the data directory as the platform resolves it:    *)
(* where "\" separates path components (Windows) the segments             *)
(* "office_ops_backup_" and ".." cancel before the file system is asked.   *)

\* f"office_ops_backup_{ts}.xlsx", app.py 218.
BackupName(ts) ==
  CASE ts = 0 -> "office_ops_backup_0.xlsx"
    [] ts = 1 -> "office_ops_backup_1.xlsx"
    [] ts = 2 -> "office_ops_backup_2.xlsx"
    [] OTHER -> "office_ops_backup_3.xlsx"

\* The names a request carries.
RequestNames ==
  {BackupName(ts) : ts \in 0..MaxTime}
    \cup {"office_ops.xlsx", "office_ops_backup_\\..\\office_ops.xlsx", "office_ops_backup_0.txt"}

\* filename.startswith("office_ops_backup_") and filename.endswith(".xlsx")
StartsWithPrefix(name) == name # "office_ops.xlsx"

EndsWithXlsx(name) == name # "office_ops_backup_0.txt"

\* The file DATA_DIR / name designates: the live workbook (XLSX_PATH), the
\* backup of a timestamp, or no file.
LiveFile == <<"live", 0>>

NoSuchFile == <<"none", 0>>

BackupFile(ts) == <<"backup", ts>>

Designates(name, backslashSeparates, files) ==
  IF name = "office_ops.xlsx" THEN LiveFile
  ELSE IF name = "office_ops_backup_\\..\\office_ops.xlsx"
       THEN IF backslashSeparates THEN LiveFile ELSE NoSuchFile
  ELSE IF \E ts \in DOMAIN files : BackupName(ts) = name
       THEN BackupFile(CHOOSE ts \in DOMAIN files : BackupName(ts) = name)
  ELSE NoSuchFile

\* path.exists()
PathExists(target, live) == IF target = LiveFile THEN live.kind # "none" ELSE target # NoSuchFile

\* delete_backup(filename), app.py 127-141, on either platform.
DeleteBackupNamed ==
  \E name \in RequestNames, backslashSeparates \in BOOLEAN :
    LET target == Designates(name, backslashSeparates, snaps)
        arg == Arg(name, 0, ("backslashSeparates" :> backslashSeparates))
    IN  IF ~PathExists(target, file) \/ ~StartsWithPrefix(name) \/ ~EndsWithXlsx(name)
        THEN Reject("delete_backup", arg, "not_found")
        ELSE IF target = LiveFile
        THEN /\ Served("delete_backup", arg, NoFile, 0, "ok")
             /\ UNCHANGED snaps
        ELSE /\ snaps' = Unlink(snaps, target[2])
             /\ Served("delete_backup", arg, file, 0, "ok")

NextBackups ==
  \/ InitGuard
  \/ Tick
  \/ UploadExcel
  \/ RestoreBackup
  \/ DeleteBackupNamed

SpecBackups == InitSeq /\ [][NextBackups]_vars

\* The step is a delete_backup that succeeded.
DeletedBackup == last'.n # last.n /\ last'.op = "delete_backup" /\ last'.resp = "ok"

\* The step removed the snapshot its name spells, and nothing else.
RemovedNamedOnly ==
  /\ file' = file
  /\ \E ts \in DOMAIN snaps :
       /\ BackupName(ts) = last'.arg.t
       /\ DOMAIN snaps' = (DOMAIN snaps) \ {ts}
       /\ \A n \in DOMAIN snaps' : snaps'[n] = snaps[n]

\* C24: delete_backup removes exactly the named snapshot. After it succeeds the
\* snapshot exists no more (it is not listed and a restore of it is not found),
\* the live workbook file and every other snapshot are unchanged, and the name
\* it accepted did not designate the live workbook file.
C24_DeleteRemovesNamedOnly == [][DeletedBackup => RemovedNamedOnly]_vars

\* The same where "\" is an ordinary character of a file name.
C24_DeleteRemovesNamedOnlyPosix ==
  [][(DeletedBackup /\ ~last'.arg.patch["backslashSeparates"]) => RemovedNamedOnly]_vars

-----------------------------------------------------------------------------
(* The lock under fair scheduling.  A thread that can take a step takes    *)
(* one in the end; a thread that waits for WB_LOCK can take its step when  *)
(* the lock is free.                                                       *)

MaxLockRequests == 3

\* The requests served here: the adds, which take the lock, and an upload,
\* which rewrites the live file without it.
LockRequests == {r \in Requests : r.op \in {"add", "upload"}}

\* A thread takes up a request.
BeginLock(p) ==
  /\ pc[p] = <<>>
  /\ last.n < MaxLockRequests
  /\ \E r \in LockRequests :
       /\ req' = [req EXCEPT ![p] = r]
       /\ pc' = [pc EXCEPT ![p] = GuardSteps \o Script(r.op)]
  /\ mem' = [mem EXCEPT ![p] = NoMem]
  /\ last' = [last EXCEPT !.n = last.n + 1]
  /\ UNCHANGED <<file, snaps, now, initDone, fx, lock, inflight>>

\* A step of thread p other than taking up a request or the lock.
ThreadStep(p) ==
  \/ EnsureStart(p)
  \/ WriteEnd(p)
  \/ Load(p)
  \/ Save(p)
  \/ Release(p)
  \/ Snapshot(p)
  \/ CopyIn(p)
  \/ InitDone(p)

NextLock ==
  \E p \in Threads :
    \/ BeginLock(p)
    \/ Acquire(p)
    \/ ThreadStep(p)

\* Thread p has a step it can take: one of its handler, or the lock when free.
CanStep(p) == pc[p] # <<>> /\ (StepOf(p) = "acquire" => lock = 0)

\* Weak fairness of each thread's steps, with ENABLED written out as CanStep.
Fairness ==
  \A p \in Threads : []<>(~CanStep(p)) \/ []<><<Acquire(p) \/ ThreadStep(p)>>_vars

SpecFair == InitSeq /\ [][NextLock]_vars /\ Fairness

\* The lock is held only by a thread inside its with block, which has the
\* release before it; a thread that waits for the lock does not hold it.
LockHeldInsideWith ==
  /\ lock # 0 => (lock \in Threads /\ "release" \in Range(pc[lock]))
  /\ \A p \in Threads : StepOf(p) = "acquire" => lock # p

\* Some thread has a step to take whenever a request is unfinished.
NoDeadlock ==
  (\E p \in Threads : pc[p] # <<>>) =>
    \E p \in Threads : pc[p] # <<>> /\ (StepOf(p) = "acquire" => lock = 0)

\* C25: WB_LOCK is released on every exit path of a handler that acquired it
\* (completion, an early return inside the with block, an exception inside
\* it), and no handler acquires it while holding it; so under fair scheduling
\* every request that waits for the lock acquires it in the end, and no
\* deadlock state is reachable.
C25_LockAlwaysReleased ==
  /\ [](LockHeldInsideWith /\ NoDeadlock)
  /\ \A p \in Threads : (StepOf(p) = "acquire") ~> (lock = p)

\* A request waits for the lock while another thread holds it.
C25_Witness ==
  \E p \in Threads : StepOf(p) = "acquire" /\ lock # 0 /\ lock # p

-----------------------------------------------------------------------------
(* Rejected updates, under SpecSeq *)

\* The errors an update handler answers.
UpdateErrors ==
  {"not_found", "number_required", "duplicate_number", "unknown_category",
   "duplicate_abbr", "duplicate_name", "bad_status"}

\* The last request was an update that was answered with an error.
RejectedUpdate == last.op = "update" /\ last.resp \in UpdateErrors

\* C26: a rejected update is all-or-nothing. When req_update, land_update,
\* cat_update or vessel_update answers an error, none of the patch's fields is
\* persisted: the file holds every table as it was before the request.
C26_RejectedUpdatePersistsNothing == RejectedUpdate => last.after = last.before

\* An update of an existing row was rejected for its status while its patch
\* also set delivered, which the row did not have.
C26_Witness ==
  /\ RejectedUpdate /\ last.resp = "bad_status"
  /\ "delivered" \in DOMAIN last.arg.patch
  /\ last.before.kind = "wb"
  /\ LET g == last.before.wb[last.arg.t]
         idx == FindRowIndexBy(g, "id", I(last.arg.id))
     IN  idx # 0 /\ RowGet(g, idx, "delivered") # Flag(last.arg.patch["delivered"])

-----------------------------------------------------------------------------
(* Concurrent req_add, req_update and req_delete, from a workbook whose    *)
(* Requisitions table is empty.  The steps are those of Spec.              *)

MaxRecRequests == 3

\* The seeded workbook with no requisition yet.
EmptyReqWorkbook == [SeededWorkbook EXCEPT !["Requisitions"] = <<HeaderRow("Requisitions")>>]

\* The body of a req_add request for a number.
ReqOf(number) ==
  ("number" :> S(number)) @@ ("vessel" :> S("Beta")) @@ ("supplier" :> S("Alpha"))
    @@ ("date_ordered" :> S("d1")) @@ ("category" :> S("gen")) @@ ("amount" :> I(10000))

\* The requests: name is the number added or patched in, ts the id of the route.
RecRequests ==
  {[op |-> "req_add", name |-> n, f |-> NoFile, ts |-> 0] : n \in {" PO-1 ", "po-1", "PO-2"}}
  \cup {[op |-> "req_update", name |-> "po-1", f |-> NoFile, ts |-> id] : id \in 1..2}
  \cup {[op |-> "req_delete", name |-> "", f |-> NoFile, ts |-> 1]}

\* The handler's work inside the lock on the workbook w it loaded.
RecHandler(w, r) ==
  CASE r.op = "req_add" -> ReqAdd(w, ReqOf(r.name), <<>>)
    [] r.op = "req_update" ->
         RecUpdate(w, "Requisitions", r.ts, ("number" :> S(r.name)),
                   UpdatePlan(w, "Requisitions", r.ts, ("number" :> S(r.name))), <<>>)
    [] r.op = "req_delete" -> DeleteById(w, "Requisitions", r.ts)

InitRec ==
  /\ file = Saved(EmptyReqWorkbook)
  /\ snaps = <<>>
  /\ now = 0
  /\ initDone = FALSE
  /\ fx = EmptyFxCache(TRUE)
  /\ last = NoLast
  /\ ThreadsIdle

\* A thread takes up a request.
BeginRec(p) ==
  /\ pc[p] = <<>>
  /\ last.n < MaxRecRequests
  /\ \E r \in RecRequests :
       /\ req' = [req EXCEPT ![p] = r]
       /\ pc' = [pc EXCEPT ![p] = GuardSteps \o Script("add")]
  /\ mem' = [mem EXCEPT ![p] = NoMem]
  /\ last' = [last EXCEPT !.n = last.n + 1]
  /\ UNCHANGED <<file, snaps, now, initDone, fx, lock, inflight>>

\* load_workbook in _open_wb (app.py 424) and the handler's work on what it read.
LoadRec(p) ==
  /\ StepOf(p) = "load"
  /\ IF ~Readable(file)
     THEN /\ Abort(p)
          /\ mem' = [mem EXCEPT ![p].seen = file]
     ELSE LET h == RecHandler(file.wb, req[p])
          IN  /\ mem' = [mem EXCEPT ![p] = [seen |-> file, out |-> Saved(h.wb)]]
              /\ pc' = [pc EXCEPT ![p] = IF h.save THEN Tail(pc[p]) ELSE <<"release">>]
              /\ UNCHANGED lock
  /\ UNCHANGED <<file, snaps, now, initDone, fx, last, req, inflight>>

NextRec ==
  \E p \in Threads :
    \/ BeginRec(p)
    \/ Acquire(p)
    \/ EnsureStart(p)
    \/ WriteEnd(p)
    \/ LoadRec(p)
    \/ Save(p)
    \/ Release(p)
    \/ InitDone(p)

SpecRec == InitRec /\ [][NextRec]_vars

\* No two rows of the Requisitions sheet g bear the same number, compared
\* trimmed and without regard to case.
UniqueNumbers(g) ==
  \A i, j \in Range(SheetRows(g)) :
    i # j => NormV(RowGet(g, i, "number")) # NormV(RowGet(g, j, "number"))

\* C27: under any interleaving of concurrent req_add, req_update and req_delete
\* requests from an empty Requisitions table, no two requisition rows of the
\* file bear the same number compared trimmed and case-insensitively; of two
\* concurrent req_add requests with the same number at most one is persisted.
C27_UniqueNumbers == Readable(file) => UniqueNumbers(file.wb["Requisitions"])

\* Two req_add requests with the same number are under way at once, one is
\* persisted and the other has been turned down inside the lock.
C27_Witness ==
  \E p, q \in Threads :
    /\ p # q
    /\ req[p].op = "req_add" /\ req[q].op = "req_add"
    /\ LowerS(StripS(req[p].name)) = LowerS(StripS(req[q].name))
    /\ pc[p] = <<"release">> /\ lock = p
    /\ pc[q] # <<>>
    /\ Readable(mem[p].seen)
    /\ \E i \in Range(SheetRows(mem[p].seen.wb["Requisitions"])) :
         NormV(RowGet(mem[p].seen.wb["Requisitions"], i, "number")) = LowerS(StripS(req[p].name))

-----------------------------------------------------------------------------
(* Requisitions and their categories, under SpecSeq *)

\* Every requisition row of workbook w names, without regard to case, the abbr
\* of a row of Categories.
CategoriesExist(w) ==
  LET g == w["Requisitions"]
      c == w["Categories"]
  IN  \A i \in Range(SheetRows(g)) :
        \E k \in Range(SheetRows(c)) :
          /\ IsStr(RowGet(g, i, "category")) /\ IsStr(RowGet(c, k, "abbr"))
          /\ NormV(RowGet(g, i, "category")) = NormV(RowGet(c, k, "abbr"))

\* C28: referential integrity of requisition categories. An add, update or
\* delete on Requisitions or Categories that starts from a workbook where every
\* requisition's category is the abbr of an existing category leaves one.
C28_CategoryIntegrityKept ==
  (/\ last.op \in {"add", "update", "delete"}
   /\ last.arg.t \in {"Requisitions", "Categories"}
   /\ Readable(last.before) /\ Readable(last.after)
   /\ CategoriesExist(last.before.wb)) => CategoriesExist(last.after.wb)

\* The same for the requests on Requisitions alone.
C28_RequisitionsKeepIntegrity ==
  (last.op \in {"add", "update", "delete"} /\ last.arg.t = "Requisitions") => C28_CategoryIntegrityKept

-----------------------------------------------------------------------------
(* The Users table: users_add_update and users_delete, app.py 519-551,     *)
(* from the freshly seeded workbook.                                       *)

\* users_add_update inside the lock, app.py 530-537.
UsersAddUpdate(w, username, password, role) ==
  LET g == w["Users"]
      idx == FindRowIndexBy(g, "username", S(username))
  IN  IF idx # 0
      THEN Done([w EXCEPT !["Users"] = SetCell(SetCell(g, idx, 2, PasswordHash(password)), idx, 3, role)])
      ELSE Done([w EXCEPT !["Users"] = Append2(g, <<S(username), PasswordHash(password), role>>)])

\* users_delete inside the lock, app.py 546-550.
UsersDelete(w, username) ==
  LET idx == FindRowIndexBy(w["Users"], "username", S(username))
  IN  IF idx = 0 THEN Refuse(w, "ok")
      ELSE Done([w EXCEPT !["Users"] = DeleteRow(w["Users"], idx)])

\* What the requests carry.
UserNames == {S("admin"), S("bob"), S("carol"), S(" ")}

UserPasswords == {S("pw"), None}

UserRoles == {None, S("admin"), S("user"), S("root")}

\* users_add_update, app.py 519-538.
SeqUsersAddUpdate ==
  /\ CanServe
  /\ LET o == EnsureWorkbook(file)
     IN  \E u \in UserNames, pw \in UserPasswords, r \in UserRoles :
           LET role == OrElse(r, S("user"))
               arg == Arg("Users", 0, ("username" :> u) @@ ("role" :> role))
           IN  IF StripV(u) = "" \/ Falsy(pw) \/ role \notin {S("admin"), S("user")}
               THEN Reject("add", arg, "bad_request")
               ELSE Serve("add", arg, o, UsersAddUpdate(WbOf(o), StripV(u), pw[2], role))
  /\ UNCHANGED fx

\* users_delete, app.py 540-551.
SeqUsersDelete ==
  /\ CanServe
  /\ LET o == EnsureWorkbook(file)
     IN  \E u \in {"admin", "bob", "carol"} :
           LET arg == Arg("Users", 0, ("username" :> S(u)))
           IN  IF u = "admin"
               THEN Reject("delete", arg, "cannot_delete_admin")
               ELSE Serve("delete", arg, o, UsersDelete(WbOf(o), u))
  /\ UNCHANGED fx

InitUsers ==
  /\ file = NoFile
  /\ snaps = <<>>
  /\ now = 0
  /\ initDone = FALSE
  /\ fx = EmptyFxCache(TRUE)
  /\ last = NoLast
  /\ ThreadsIdle

NextUsers ==
  \/ InitGuard
  \/ SeqUsersAddUpdate
  \/ SeqUsersDelete

SpecUsers == InitUsers /\ [][NextUsers]_vars

\* The Users sheet g has at most one row per username.
OneRowPerUser(g) ==
  \A i, j \in Range(SheetRows(g)) : i # j => RowGet(g, i, "username") # RowGet(g, j, "username")

\* The Users sheet g has an account whose role is admin.
HasAdminAccount(g) == \E i \in Range(SheetRows(g)) : RowGet(g, i, "role") = S("admin")

\* C29: from a freshly seeded workbook, under any sequence of users_add_update
\* and users_delete requests, the Users table has at most one row per username
\* and at least one account whose role is admin.
C29_OneAdminAlways ==
  (initDone /\ Readable(file)) =>
    (OneRowPerUser(file.wb["Users"]) /\ HasAdminAccount(file.wb["Users"]))

\* The part about the usernames alone.
C29_OneRowPerUser == (initDone /\ Readable(file)) => OneRowPerUser(file.wb["Users"])

====
